---- MODULE Spec2Model ----
(***************************************************************************)
(* A model of vibot-mobile's Surprise Engine (services/surprise.ts) and of *)
(* TalkScreen's capture path (saveAsMemory with AIService.analyzeMemory).  *)
(*                                                                         *)
(* Time is counted in hours since 2024-01-01 00:00; Date.getTime() is the  *)
(* hour count, getDate()/getMonth() are computed by the calendar below.    *)
(* Engine-side tags and room names are opaque strings (the engine only     *)
(* compares them); capture-side text is a sequence of characters, because  *)
(* the code works on it character by character.                            *)
(***************************************************************************)
EXTENDS Integers, Sequences, FiniteSets, TLC

VARIABLES
    apiKey,        \* AIServiceClass.apiKey
    now,           \* the clock, new Date()
    \* SurpriseEngine.generateSurprises
    memories,      \* argument: Memory[]
    rooms,         \* argument: Room[]
    count,         \* argument: number
    pc,            \* position of the generateSurprises call
    remaining,     \* generators of the shuffled list not yet reached by the loop
    surprises,     \* the local `surprises` array
    pending,       \* the insight an awaited AI generator builds once chat resolves
    chatInFlight,  \* AIService.chat calls issued and not yet settled
    chatCalls,     \* AIService.chat calls issued during the call
    errors,        \* console.error('Surprise generation error:') calls
    result,        \* the array the call resolved with
    \* TalkScreen.saveAsMemory
    text,          \* argument: the captured text
    isVoice,       \* argument
    storeMemories, \* state.memories
    storeRooms,    \* state.rooms
    savePc,        \* position of the saveAsMemory call
    gatewayReply,  \* the outcome of the call's AIService.chat
    dispatched,    \* ADD_MEMORY actions dispatched by the call
    saveErrors     \* console.error('Failed to save memory:') calls

VARIABLES
    \* AIService.chat
    chatPc,        \* position of the chat call
    chatMessages,  \* argument: Message[]
    systemPrompt,  \* argument: string | undefined
    chatRequest,   \* the body handed to fetch
    chatResponse,  \* the Response fetch resolved with, and what its body reads as
    chatResult     \* how the call settled

VARIABLES
    \* the store: dispatch(action) on appReducer
    lastAction,      \* the action dispatched last
    roomsCreated,    \* rooms built by handleCreateRoom so far (each with a fresh id)
    memoriesCreated  \* memories built by saveAsMemory so far (each with a fresh id)

VARIABLES
    \* AppProvider: the persistence effects and loadPersistedData
    disk,          \* AsyncStorage: what each key holds
    diskAtStart,   \* what each key held when the app started
    storageOps,    \* AsyncStorage operations issued and not yet carried out
    reads,         \* what the getItem calls of loadPersistedData resolved with
    appState,      \* the slices of the store's state
    loadPc         \* position of loadPersistedData

VARIABLES
    \* TranscriptionService.transcribe
    openaiKey,     \* TranscriptionServiceClass.apiKey
    trPc,          \* position of the transcribe call
    attempt,       \* the loop variable
    attemptLog,    \* how each attempt made so far ended
    waits,         \* the delays slept so far, in ms
    lastError,     \* the local lastError: None (null) or an Error with its message
    trResult       \* how the call settled

VARIABLES
    \* VoiceService
    voiceRecording,  \* VoiceServiceClass.recording: a recording, or NoRecording for null
    isInitialized,   \* VoiceServiceClass.isInitialized
    recordings,      \* the Audio.Recording objects created so far: the state of each
    voiceCalls       \* the startRecording, stopRecording and cancelRecording calls made so far

VARIABLES
    \* HomeScreen
    homeMemories,  \* state.memories.length as HomeScreen renders it
    homeCalls,     \* the loadSurprises calls made so far
    displayed,     \* the surprises state: the call whose batch it holds, 0 for the initial []
    refreshing     \* the refreshing state

VARIABLES
    \* TalkScreen and the conversations of the store
    conversations,        \* AppState.conversations
    currentConversation,  \* AppState.currentConversation, None for null
    talkPc,               \* position of TalkScreen's initial conversation effect
    conversationsLoad,    \* position of loadPersistedData's conversations branch
    messagesSent          \* the messages TalkScreen has dispatched

serviceVars == <<apiKey, now>>

engineVars == <<memories, rooms, count, pc, remaining, surprises, pending, chatInFlight,
                chatCalls, errors, result>>

saveVars == <<text, isVoice, storeMemories, storeRooms, savePc, gatewayReply, dispatched,
              saveErrors>>

chatVars == <<chatPc, chatMessages, systemPrompt, chatRequest, chatResponse, chatResult>>

dispatchVars == <<lastAction, roomsCreated, memoriesCreated>>

persistVars == <<disk, diskAtStart, storageOps, reads, appState, loadPc>>

transcribeVars == <<openaiKey, trPc, attempt, attemptLog, waits, lastError, trResult>>

voiceVars == <<voiceRecording, isInitialized, recordings, voiceCalls>>

homeVars == <<homeMemories, homeCalls, displayed, refreshing>>

talkVars == <<conversations, currentConversation, talkPc, conversationsLoad, messagesSent>>

screenVars == <<homeVars, talkVars>>

appVars == <<chatVars, dispatchVars, persistVars, transcribeVars, voiceVars, screenVars>>

vars == <<serviceVars, engineVars, saveVars, appVars>>

(***************************************************************************)
(* Bounds of the model.                                                    *)
(***************************************************************************)
MaxMem == 5
MaxRooms == 2
MaxCount == 2

(***************************************************************************)
(* Dates.                                                                  *)
(***************************************************************************)
HoursPerDay == 24

Abs(x) == IF x < 0 THEN 0 - x ELSE x

Min(a, b) == IF a < b THEN a ELSE b

Max(a, b) == IF a > b THEN a ELSE b

\* Math.floor(Math.abs(d1.getTime() - d2.getTime()) / (1000 * 60 * 60 * 24))
daysBetween(d1, d2) == Abs(d1 - d2) \div HoursPerDay

IsLeapYear(y) == y % 4 = 0 /\ (y % 100 # 0 \/ y % 400 = 0)

YearLength(y) == IF IsLeapYear(y) THEN 366 ELSE 365

MonthLength(y, m) ==
    <<31, IF IsLeapYear(y) THEN 29 ELSE 28, 31, 30, 31, 30, 31, 31, 30, 31, 30, 31>>[m + 1]

RECURSIVE YearAndDay(_, _)
\* <<year, day of the year (from 0)>> of day number d counted from 1 January of y
YearAndDay(d, y) ==
    IF d < YearLength(y) THEN <<y, d>> ELSE YearAndDay(d - YearLength(y), y + 1)

RECURSIVE MonthAndDate(_, _, _)
\* <<month (from 0, as getMonth), day of the month (from 1, as getDate)>>
MonthAndDate(doy, y, m) ==
    IF doy < MonthLength(y, m) THEN <<m, doy + 1>>
    ELSE MonthAndDate(doy - MonthLength(y, m), y, m + 1)

CalendarOf(t) ==
    LET yd == YearAndDay(t \div HoursPerDay, 2024)
    IN  MonthAndDate(yd[2], yd[1], 0)

getMonth(t) == CalendarOf(t)[1]

getDate(t) == CalendarOf(t)[2]

\* d1.getDate() === d2.getDate() && d1.getMonth() === d2.getMonth()
sameDay(d1, d2) == getDate(d1) = getDate(d2) /\ getMonth(d1) = getMonth(d2)

(***************************************************************************)
(* Sequence helpers standing for the array methods the code uses.          *)
(***************************************************************************)
\* Array.prototype.slice(0, k)
Take(s, k) == SubSeq(s, 1, Min(Len(s), Max(k, 0)))

\* Array.prototype.includes
Includes(s, x) == \E i \in 1..Len(s) : s[i] = x

\* Array.prototype.map((m) => m.id)
Ids(s) == [i \in 1..Len(s) |-> s[i].id]

RECURSIVE FlatTags(_)
\* flatMap((m) => m.tags), also the order in which forEach visits the tags
FlatTags(s) == IF s = <<>> THEN <<>> ELSE Head(s).tags \o FlatTags(Tail(s))

RECURSIVE Distinct(_)
\* first occurrences, in order: Map/Set insertion order, filter(indexOf === i)
Distinct(s) ==
    IF s = <<>> THEN <<>>
    ELSE LET front == Distinct(SubSeq(s, 1, Len(s) - 1))
             last == s[Len(s)]
         IN  IF Includes(front, last) THEN front ELSE Append(front, last)

Occurrences(s, x) == Cardinality({i \in 1..Len(s) : s[i] = x})

RECURSIVE InsertByKey(_, _)
InsertByKey(sorted, x) ==
    IF sorted = <<>> THEN <<x>>
    ELSE IF Head(sorted).key <= x.key
         THEN <<Head(sorted)>> \o InsertByKey(Tail(sorted), x)
         ELSE <<x>> \o sorted

RECURSIVE SortAscending(_)
\* Array.prototype.sort((a, b) => a.key - b.key) on records with a key field:
\* ascending and stable (equal keys keep their order)
SortAscending(s) ==
    IF s = <<>> THEN <<>>
    ELSE InsertByKey(SortAscending(SubSeq(s, 1, Len(s) - 1)), s[Len(s)])

(***************************************************************************)
(* Insights.                                                               *)
(***************************************************************************)
NoRoom == 0

SyncGenerators == {"on_this_day", "forgotten_gem", "pattern", "nudge", "mashup", "question"}

AIGenerators == {"connection", "idea_spark"}

\* makeSurprise: the type, the title and what the content interpolates
\* (topic, n), and the related memory ids.  id, icon, gradient and createdAt
\* are display data no operation reads.
makeSurprise(type, title, topic, n, relatedMemoryIds) ==
    [type |-> type, title |-> title, topic |-> topic, n |-> n,
     relatedMemoryIds |-> relatedMemoryIds]

\* a generator's `null`
Null == [type |-> "null", title |-> "", topic |-> "", n |-> 0, relatedMemoryIds |-> <<>>]

(***************************************************************************)
(* The generators.  Each is the set of results the call can return: the   *)
(* members differ by the outcome of Math.random().                         *)
(***************************************************************************)
\* Math.round(a / b) for a >= 0, b > 0
RoundDiv(a, b) == (2 * a + b) \div (2 * b)

\* the filter of findOnThisDay without its age test
onThisDayMatches_NoAgeCheck(mems) ==
    SelectSeq(mems, LAMBDA m : sameDay(m.createdAt, now))

onThisDayMatches(mems) ==
    SelectSeq(mems, LAMBDA m : sameDay(m.createdAt, now) /\ daysBetween(m.createdAt, now) >= 7)

onThisDaySurprise(memory) ==
    LET weeksAgo == RoundDiv(daysBetween(memory.createdAt, now), 7)
    IN  IF weeksAgo >= 4
        THEN makeSurprise("on_this_day", "On This Day", "months", RoundDiv(weeksAgo, 4),
                          <<memory.id>>)
        ELSE makeSurprise("on_this_day", "On This Day", "weeks", weeksAgo, <<memory.id>>)

findOnThisDay(mems) ==
    LET matches == onThisDayMatches(mems)
    IN  IF Len(matches) = 0 THEN {Null}
        ELSE {onThisDaySurprise(matches[i]) : i \in 1..Len(matches)}

findForgottenGem(mems) ==
    IF Len(mems) < 5 THEN {Null}
    ELSE LET old == SelectSeq(mems, LAMBDA m : daysBetween(m.createdAt, now) > 14)
             oldMemories == SortAscending([i \in 1..Len(old) |->
                                [key |-> old[i].createdAt, memory |-> old[i]]])
             pool == Take(oldMemories, Max(1, Len(oldMemories) \div 3))
         IN  IF Len(oldMemories) = 0 THEN {Null}
             ELSE {makeSurprise("forgotten_gem", "Forgotten Gem", "", 0, <<pool[i].memory.id>>) :
                      i \in 1..Len(pool)}

\* the entries of tagCounts with count >= 3 left in insertion order
topTags_Unsorted(recentMemories) ==
    LET all == FlatTags(recentMemories)
        keys == Distinct(all)
        frequent == SelectSeq(keys, LAMBDA t : Occurrences(all, t) >= 3)
    IN  [i \in 1..Len(frequent) |->
            [key |-> 0, tag |-> frequent[i], count |-> Occurrences(all, frequent[i])]]

\* the entries of tagCounts with count >= 3, sorted by descending count (stable)
topTags(recentMemories) ==
    LET all == FlatTags(recentMemories)
        keys == Distinct(all)
        frequent == SelectSeq(keys, LAMBDA t : Occurrences(all, t) >= 3)
    IN  SortAscending([i \in 1..Len(frequent) |->
            [key |-> 0 - Occurrences(all, frequent[i]), tag |-> frequent[i],
             count |-> Occurrences(all, frequent[i])]])

findPattern(mems) ==
    IF Len(mems) < 3 THEN {Null}
    ELSE LET recentMemories == Take(mems, 20)
             top == topTags(recentMemories)
         IN  IF Len(top) = 0 THEN {Null}
             ELSE LET tag == top[1].tag
                      tagged == SelectSeq(recentMemories, LAMBDA m : Includes(m.tags, tag))
                  IN  {makeSurprise("pattern", "Thinking Pattern", tag, top[1].count,
                                    Ids(Take(tagged, 3)))}

\* Math.max(...roomMemories.map(createdAt)), 0 for a room without memories
lastActivityOf(mems, room) ==
    LET roomMemories == SelectSeq(mems, LAMBDA m : m.roomId = room.id)
    IN  IF Len(roomMemories) > 0
        THEN CHOOSE t \in {roomMemories[i].createdAt : i \in 1..Len(roomMemories)} :
                 \A i \in 1..Len(roomMemories) : roomMemories[i].createdAt <= t
        ELSE 0

roomMemoryCount(mems, room) == Len(SelectSeq(mems, LAMBDA m : m.roomId = room.id))

\* the rooms with memories and no recent activity, left in the order of rooms
neglectedRooms_Unsorted(mems, rms) ==
    LET roomActivity == [i \in 1..Len(rms) |->
            [key |-> lastActivityOf(mems, rms[i]), room |-> rms[i],
             memoryCount |-> roomMemoryCount(mems, rms[i])]]
    IN  SelectSeq(roomActivity,
            LAMBDA r : r.memoryCount > 0 /\ daysBetween(r.key, now) > 7)

\* the rooms with memories and no recent activity, the longest neglected first

neglectedRooms(mems, rms) ==
    LET roomActivity == [i \in 1..Len(rms) |->
            [key |-> lastActivityOf(mems, rms[i]), room |-> rms[i],
             memoryCount |-> roomMemoryCount(mems, rms[i])]]
    IN  SortAscending(SelectSeq(roomActivity,
            LAMBDA r : r.memoryCount > 0 /\ daysBetween(r.key, now) > 7))

\* generateNudge relating the room's id as if it were a memory's
generateNudge_RelatesRoom(mems, rms) ==
    IF Len(rms) = 0 THEN {Null}
    ELSE LET neglected == neglectedRooms(mems, rms)
         IN  IF Len(neglected) = 0 THEN {Null}
             ELSE {makeSurprise("nudge", "Missing You", neglected[1].room.name,
                                daysBetween(neglected[1].key, now), <<neglected[1].room.id>>)}

generateNudge(mems, rms) ==
    IF Len(rms) = 0 THEN {Null}
    ELSE LET neglected == neglectedRooms(mems, rms)
         IN  IF Len(neglected) = 0 THEN {Null}
             ELSE {makeSurprise("nudge", "Missing You", neglected[1].room.name,
                                daysBetween(neglected[1].key, now), <<>>)}

\* !m.tags.some((t) => m1.tags.includes(t))
DisjointTags(m, m1) == ~ \E i \in 1..Len(m.tags) : Includes(m1.tags, m.tags[i])

mashupPartner(m, m1) == m.id # m1.id /\ m.roomId # m1.roomId /\ DisjointTags(m, m1)

\* the pairs of generateMashup with the fallback taking shuffled[0] again
mashupPairs_FallbackToFirst(mems) ==
    {p \in (1..Len(mems)) \X (1..Len(mems)) :
        IF \E j \in 1..Len(mems) : mashupPartner(mems[j], mems[p[1]])
        THEN mashupPartner(mems[p[2]], mems[p[1]])
        ELSE p[2] = p[1]}

\* The pairs <<m1, m2>> of positions generateMashup can pick.
\* [...memories].sort(() => Math.random() - 0.5) can put any memory first and
\* any other second; m2 is the first memory of the shuffled array that
\* satisfies mashupPartner, so any memory satisfying it can be the one found,
\* and when none does m2 is shuffled[1], at any other position.
mashupPairs(mems) ==
    {p \in (1..Len(mems)) \X (1..Len(mems)) :
        IF \E j \in 1..Len(mems) : mashupPartner(mems[j], mems[p[1]])
        THEN mashupPartner(mems[p[2]], mems[p[1]])
        ELSE p[2] # p[1]}

generateMashup(mems) ==
    IF Len(mems) < 4 THEN {Null}
    ELSE {makeSurprise("mashup", "Idea Mashup", "", 0, <<mems[p[1]].id, mems[p[2]].id>>) :
             p \in mashupPairs(mems)}

\* generateQuestion returning null when the recent memories carry no tag
generateQuestion_NeedsTags(mems) ==
    IF Len(mems) = 0 \/ FlatTags(Take(mems, 10)) = <<>> THEN {Null}
    ELSE {makeSurprise("question", "Think About This", "", 0, Ids(Take(mems, 2)))}

generateQuestion(mems) ==
    IF Len(mems) = 0 THEN {Null}
    ELSE {makeSurprise("question", "Think About This", "", 0, Ids(Take(mems, 2)))}

connectionPartner(m, m1) == m.id # m1.id /\ DisjointTags(m, m1)

\* as mashupPairs, for generateAIConnection's find(...) || shuffled[1]
connectionPairs(mems) ==
    {p \in (1..Len(mems)) \X (1..Len(mems)) :
        IF \E j \in 1..Len(mems) : connectionPartner(mems[j], mems[p[1]])
        THEN connectionPartner(mems[p[2]], mems[p[1]])
        ELSE p[2] # p[1]}

\* generateAIConnection up to its await: Null, or the insight it returns once
\* AIService.chat resolves
generateAIConnection(mems) ==
    IF Len(mems) < 3 THEN {Null}
    ELSE {makeSurprise("connection", "Hidden Connection", "", 0,
                       <<mems[p[1]].id, mems[p[2]].id>>) :
             p \in connectionPairs(mems)}

\* generateAIIdeaSpark up to its await
generateAIIdeaSpark(mems) ==
    IF Len(mems) < 2 THEN {Null}
    ELSE LET recentTopics == Take(Distinct(FlatTags(Take(mems, 10))), 5)
         IN  IF Len(recentTopics) = 0 THEN {Null}
             ELSE {makeSurprise("idea_spark", "Idea Spark", "", 0, Ids(Take(mems, 2)))}

generateRandomEncouragement(mems) ==
    makeSurprise("idea_spark", "Keep Talking", "", Len(mems), <<>>)

generateWelcomeSurprise ==
    makeSurprise("idea_spark", "Welcome to Your Memory Palace", "", 0, <<>>)

(***************************************************************************)
(* The gateway's configuration.                                            *)
(***************************************************************************)
\* values of process.env.EXPO_PUBLIC_ANTHROPIC_API_KEY || ''
ApiKeys == {" ", "sk-ant-key"}

\* String.prototype.trim on the keys above
Trim(s) == IF s = " " THEN "" ELSE s

\* !!(this.apiKey && this.apiKey.trim() !== '')
isConfigured == apiKey # "" /\ Trim(apiKey) # ""

(***************************************************************************)
(* The inputs of a generateSurprises call.                                 *)
(***************************************************************************)
\* the reading of the clock: 2026-11-01 12:00
Clock == (366 + 365 + 304) * HoursPerDay + 12

Cycle(table, i) == table[((i - 1) % Len(table)) + 1]

Corpora == {"journal", "mixed"}

\* the age in hours of the i-th memory of a corpus: "journal" holds a memory
\* of the same day one year ago, "mixed" one of the same day two years ago
CorpusAge(c, i) ==
    CASE c = "journal" ->
           Cycle(<<2, 365 * HoursPerDay, 20 * HoursPerDay, 10 * HoursPerDay + 5,
                   400 * HoursPerDay, 3 * HoursPerDay>>, i)
      [] c = "mixed" ->
           Cycle(<<8 * HoursPerDay + 3, 30 * HoursPerDay, 1, 5, 730 * HoursPerDay,
                   15 * HoursPerDay>>, i)

\* every "journal" memory carries the tag work; the first two "mixed"
\* memories carry no tag and the others differ
CorpusTags(c, i) ==
    CASE c = "journal" -> Cycle(<< <<"work">>, <<"work", "idea">> >>, i)
      [] c = "mixed" ->
           IF i <= 2 THEN <<>>
           ELSE Cycle(<< <<"work">>, <<"idea">>, <<"health", "idea">>, <<>> >>, i)

\* every "journal" memory is in room 101; "mixed" memories are in room 101,
\* in room 102 or in no room (both rooms are stale while the collection has
\* fewer than 4 memories, room 102 the staler one)
CorpusRoom(c, i) ==
    CASE c = "journal" -> 101
      [] c = "mixed" -> Cycle(<<101, 102, NoRoom>>, i)

\* a Memory: the fields the engine reads; ids are unique (generateId)
CorpusMemory(c, i) ==
    [id |-> i, createdAt |-> Clock - CorpusAge(c, i), tags |-> CorpusTags(c, i),
     roomId |-> CorpusRoom(c, i)]

Corpus(c, n) == [i \in 1..n |-> CorpusMemory(c, i)]

\* a Room: the fields the engine reads
RoomList(n) == [j \in 1..n |-> [id |-> 100 + j, name |-> Cycle(<<"Work", "Ideas", "Health">>, j)]]

(***************************************************************************)
(* generateSurprises as a state machine.                                   *)
(***************************************************************************)
\* no generateSurprises call
EngineIdle ==
    /\ memories = <<>>
    /\ rooms = <<>>
    /\ count = 0
    /\ pc = "idle"
    /\ remaining = {}
    /\ surprises = <<>>
    /\ pending = Null
    /\ chatInFlight = 0
    /\ chatCalls = 0
    /\ errors = 0
    /\ result = <<>>

NoReply == [kind |-> "none"]

\* no saveAsMemory call
SaveIdle ==
    /\ text = <<>>
    /\ isVoice = FALSE
    /\ storeMemories = <<>>
    /\ storeRooms = <<>>
    /\ savePc = "idle"
    /\ gatewayReply = NoReply
    /\ dispatched = 0
    /\ saveErrors = 0

\* no value: an unset local, an absent argument
None == [kind |-> "none"]

NoRecording == 0

\* the services, the store's dispatches and the provider as they are while
\* no call of them is modelled, all but those of `running`
IdleBut(running) ==
    /\ "chat" \in running \/
          /\ chatPc = "idle"
          /\ chatMessages = <<>>
          /\ systemPrompt = ""
          /\ chatRequest = None
          /\ chatResponse = None
          /\ chatResult = None
    /\ "dispatch" \in running \/
          /\ lastAction = None
          /\ roomsCreated = 0
          /\ memoriesCreated = 0
    /\ "persist" \in running \/
          /\ disk = None
          /\ diskAtStart = None
          /\ storageOps = {}
          /\ reads = None
          /\ appState = None
          /\ loadPc = "idle"
    /\ "transcribe" \in running \/
          /\ openaiKey = ""
          /\ trPc = "idle"
          /\ attempt = 0
          /\ attemptLog = <<>>
          /\ waits = <<>>
          /\ lastError = None
          /\ trResult = None
    /\ "voice" \in running \/
          /\ voiceRecording = NoRecording
          /\ isInitialized = FALSE
          /\ recordings = <<>>
          /\ voiceCalls = <<>>
    /\ "home" \in running \/
          /\ homeMemories = 0
          /\ homeCalls = <<>>
          /\ displayed = 0
          /\ refreshing = FALSE
    /\ "talk" \in running \/
          /\ conversations = <<>>
          /\ currentConversation = None
          /\ talkPc = "idle"
          /\ conversationsLoad = None
          /\ messagesSent = 0

Init ==
    /\ apiKey \in ApiKeys
    /\ now = Clock
    /\ \E c \in Corpora, n \in 0..MaxMem : memories = Corpus(c, n)
    /\ \E k \in 0..MaxRooms : rooms = RoomList(k)
    /\ count \in 0..MaxCount
    /\ pc = "start"
    /\ remaining = {}
    /\ surprises = <<>>
    /\ pending = Null
    /\ chatInFlight = 0
    /\ chatCalls = 0
    /\ errors = 0
    /\ result = <<>>
    /\ SaveIdle
    /\ IdleBut({})

\* the candidate list with the AI generators pushed unconditionally
CandidateGenerators_AlwaysAI == SyncGenerators \cup AIGenerators

\* the candidate list: the six rule-based generators, and the two AI ones
\* pushed when AIService.isConfigured()
CandidateGenerators ==
    SyncGenerators \cup (IF isConfigured THEN AIGenerators ELSE {})

\* the call without its early return for an empty collection
Enter_NoEmptyCheck ==
    /\ pc = "start"
    /\ remaining' = SyncGenerators \cup (IF isConfigured THEN AIGenerators ELSE {})
    /\ pc' = "loop"
    /\ UNCHANGED <<serviceVars, memories, rooms, count, surprises, pending,
                   chatInFlight, chatCalls, errors, result>>
    /\ UNCHANGED <<saveVars, appVars>>

\* the call up to the shuffle: the empty-collection return, else the
\* candidate list.  The shuffle's permutation is drawn one position at a
\* time by the loop: `remaining` holds the generators not yet placed.
Enter ==
    /\ pc = "start"
    /\ IF Len(memories) = 0
       THEN /\ result' = <<generateWelcomeSurprise>>
            /\ pc' = "done"
            /\ UNCHANGED remaining
       ELSE /\ remaining' = CandidateGenerators
            /\ pc' = "loop"
            /\ UNCHANGED result
    /\ UNCHANGED <<serviceVars, memories, rooms, count, surprises, pending,
                   chatInFlight, chatCalls, errors>>
    /\ UNCHANGED <<saveVars, appVars>>

\* the loop's break test off by one
BatchFull_OffByOne == Len(surprises) > count

\* if (surprises.length >= count) break;
BatchFull == Len(surprises) >= count

SyncResults(g) ==
    CASE g = "on_this_day" -> findOnThisDay(memories)
      [] g = "forgotten_gem" -> findForgottenGem(memories)
      [] g = "pattern" -> findPattern(memories)
      [] g = "nudge" -> generateNudge(memories, rooms)
      [] g = "mashup" -> generateMashup(memories)
      [] g = "question" -> generateQuestion(memories)

AIResults(g) ==
    CASE g = "connection" -> generateAIConnection(memories)
      [] g = "idea_spark" -> generateAIIdeaSpark(memories)

\* one iteration of the loop on a rule-based generator
InvokeSync ==
    /\ pc = "loop"
    /\ ~BatchFull
    /\ \E g \in remaining \cap SyncGenerators :
         \E s \in SyncResults(g) :
            /\ remaining' = remaining \ {g}
            /\ surprises' = IF s = Null THEN surprises ELSE Append(surprises, s)
    /\ UNCHANGED <<serviceVars, memories, rooms, count, pc, pending, chatInFlight,
                   chatCalls, errors, result>>
    /\ UNCHANGED <<saveVars, appVars>>

\* one iteration of the loop on an AI generator, up to its await: it
\* returns null, or it calls AIService.chat, which throws at once without
\* credentials and otherwise issues the request
InvokeAI ==
    /\ pc = "loop"
    /\ ~BatchFull
    /\ \E g \in remaining \cap AIGenerators :
         \E s \in AIResults(g) :
            /\ remaining' = remaining \ {g}
            /\ IF s = Null
               THEN UNCHANGED <<pc, pending, chatInFlight, chatCalls, errors>>
               ELSE IF ~isConfigured
               THEN /\ chatCalls' = chatCalls + 1
                    /\ errors' = errors + 1
                    /\ UNCHANGED <<pc, pending, chatInFlight>>
               ELSE /\ chatCalls' = chatCalls + 1
                    /\ chatInFlight' = chatInFlight + 1
                    /\ pending' = s
                    /\ pc' = "await"
                    /\ UNCHANGED errors
    /\ UNCHANGED <<serviceVars, memories, rooms, count, surprises, result>>
    /\ UNCHANGED <<saveVars, appVars>>

\* chat resolves (with the reply's text, or '' when it carries none): the
\* generator returns its insight and the loop pushes it
ChatResolves ==
    /\ pc = "await"
    /\ chatInFlight' = chatInFlight - 1
    /\ surprises' = Append(surprises, pending)
    /\ pending' = Null
    /\ pc' = "loop"
    /\ UNCHANGED <<serviceVars, memories, rooms, count, remaining, chatCalls, errors, result>>
    /\ UNCHANGED <<saveVars, appVars>>

\* the loop without its try/catch: the rejection ends the call
ChatRejects_Uncaught ==
    /\ pc = "await"
    /\ chatInFlight' = chatInFlight - 1
    /\ pending' = Null
    /\ pc' = "rejected"
    /\ UNCHANGED <<serviceVars, memories, rooms, count, remaining, surprises, chatCalls,
                   errors, result>>
    /\ UNCHANGED <<saveVars, appVars>>

\* chat rejects (fetch fails, or the status is not OK): the loop's catch
\* logs the error and goes on
ChatRejects ==
    /\ pc = "await"
    /\ chatInFlight' = chatInFlight - 1
    /\ errors' = errors + 1
    /\ pending' = Null
    /\ pc' = "loop"
    /\ UNCHANGED <<serviceVars, memories, rooms, count, remaining, surprises, chatCalls, result>>
    /\ UNCHANGED <<saveVars, appVars>>

\* the return without the fallback
Return_NoFallback ==
    /\ pc = "loop"
    /\ Len(surprises) >= count \/ remaining = {}
    /\ result' = surprises
    /\ pc' = "done"
    /\ UNCHANGED <<serviceVars, memories, rooms, count, remaining, surprises, pending,
                   chatInFlight, chatCalls, errors>>
    /\ UNCHANGED <<saveVars, appVars>>

\* the end of the loop, the fallback and the return
Return ==
    /\ pc = "loop"
    /\ BatchFull \/ remaining = {}
    /\ surprises' = IF Len(surprises) = 0
                    THEN <<generateRandomEncouragement(memories)>>
                    ELSE surprises
    /\ result' = surprises'
    /\ pc' = "done"
    /\ UNCHANGED <<serviceVars, memories, rooms, count, remaining, pending,
                   chatInFlight, chatCalls, errors>>
    /\ UNCHANGED <<saveVars, appVars>>

Next ==
    \/ Enter
    \/ InvokeSync
    \/ InvokeAI
    \/ ChatResolves
    \/ ChatRejects
    \/ Return

Spec == Init /\ [][Next]_vars

(***************************************************************************)
(* The generators called one at a time, on collections chosen to reach    *)
(* each of their branches.                                                 *)
(***************************************************************************)
MaxDated == 2

\* a second reading of the clock: 2026-03-01 09:00
ClockMarch == (366 + 365 + 59) * HoursPerDay + 9

Clocks == {Clock, ClockMarch}

\* ages in hours: earlier the same day, 3 days, 7 days, 28 days (1 February
\* for 1 March), 31 days (1 October for 1 November), a year less 5 hours
\* (the same date a year ago), a year and 13 hours (the day before it),
\* 400 days, two years
DatedAges ==
    {5, 3 * HoursPerDay, 7 * HoursPerDay, 28 * HoursPerDay, 31 * HoursPerDay,
     365 * HoursPerDay - 5, 365 * HoursPerDay + 13, 400 * HoursPerDay, 730 * HoursPerDay}

SeqsUpTo(S, n) == UNION {[1..k -> S] : k \in 0..n}

\* memories of the given ages at time t, without tags or room
DatedCorpus(ages, t) ==
    [i \in 1..Len(ages) |->
        [id |-> i, createdAt |-> t - ages[i], tags |-> <<>>, roomId |-> NoRoom]]

DatedInputs(t) == {DatedCorpus(ages, t) : ages \in SeqsUpTo(DatedAges, MaxDated)}

MaxTagged == 4

MaxLong == 22

TagLists == {<<>>, <<"a">>, <<"a", "b">>, <<"b", "b", "b">>}

\* memories carrying the given tag lists, the newest first, without room
TaggedCorpus(tagLists, t) ==
    [i \in 1..Len(tagLists) |->
        [id |-> i, createdAt |-> t - i, tags |-> tagLists[i], roomId |-> NoRoom]]

TaggedInputs(t) == {TaggedCorpus(tagLists, t) : tagLists \in SeqsUpTo(TagLists, MaxTagged)}

\* the positions of a long collection that can carry the tag a: inside and
\* outside the first 20
LongPositions == {1, 2, 20, 21, MaxLong}

\* collections of MaxLong memories: those at `positions` carry the tag a,
\* and with `withB` those at 3, 4 and 5 carry the tag b
LongInputs(t) ==
    {TaggedCorpus([i \in 1..MaxLong |->
                      IF i \in positions THEN <<"a">>
                      ELSE IF withB /\ i \in 3..5 THEN <<"b">> ELSE <<>>], t) :
        positions \in SUBSET LongPositions, withB \in BOOLEAN}

MaxRoomed == 3

\* ages in hours: 2 days, 7 days and a half, 8 days, 30 days
RoomedAges == {2 * HoursPerDay, 7 * HoursPerDay + 12, 8 * HoursPerDay, 30 * HoursPerDay}

\* memories of the given ages in the given rooms, without tags
RoomedCorpus(entries, t) ==
    [i \in 1..Len(entries) |->
        [id |-> i, createdAt |-> t - entries[i][1], tags |-> <<>>, roomId |-> entries[i][2]]]

RoomedInputs(t) ==
    {RoomedCorpus(entries, t) : entries \in SeqsUpTo(RoomedAges \X {101, 102}, MaxRoomed)}

\* collections of 4 memories, each with one of two tags and in one of two rooms
PairedInputs(t) ==
    {[i \in 1..4 |-> [id |-> i, createdAt |-> t - i, tags |-> <<entries[i][1]>>,
                      roomId |-> entries[i][2]]] :
        entries \in [1..4 -> {"a", "b"} \X {101, 102}]}

\* the engine before a generator is called on a collection of `inputs`
\* and a room list of `roomLists`
GeneratorCalledOn(inputs, roomLists) ==
    /\ apiKey = "sk-ant-key"
    /\ memories \in inputs
    /\ rooms \in roomLists
    /\ count = 0
    /\ pc = "start"
    /\ remaining = {}
    /\ surprises = <<>>
    /\ pending = Null
    /\ chatInFlight = 0
    /\ chatCalls = 0
    /\ errors = 0
    /\ result = <<>>
    /\ SaveIdle
    /\ IdleBut({})

OnThisDayInit == now \in Clocks /\ GeneratorCalledOn(DatedInputs(now), {<<>>})

PatternInit ==
    now = Clock /\ GeneratorCalledOn(TaggedInputs(now) \cup LongInputs(now), {<<>>})

NudgeInit ==
    now = Clock /\ GeneratorCalledOn(RoomedInputs(now), {RoomList(k) : k \in 0..MaxRooms})

PairingInit ==
    now = Clock /\ GeneratorCalledOn(TaggedInputs(now) \cup PairedInputs(now), {<<>>})

\* a call of findOnThisDay(memories)
CallFindOnThisDay ==
    /\ pc = "start"
    /\ pending' \in findOnThisDay(memories)
    /\ pc' = "on_this_day"
    /\ UNCHANGED <<serviceVars, memories, rooms, count, remaining, surprises,
                   chatInFlight, chatCalls, errors, result>>
    /\ UNCHANGED <<saveVars, appVars>>

\* a call of findPattern(memories)
CallFindPattern ==
    /\ pc = "start"
    /\ pending' \in findPattern(memories)
    /\ pc' = "pattern"
    /\ UNCHANGED <<serviceVars, memories, rooms, count, remaining, surprises,
                   chatInFlight, chatCalls, errors, result>>
    /\ UNCHANGED <<saveVars, appVars>>

\* a call of generateNudge(memories, rooms)
CallGenerateNudge ==
    /\ pc = "start"
    /\ pending' \in generateNudge(memories, rooms)
    /\ pc' = "nudge"
    /\ UNCHANGED <<serviceVars, memories, rooms, count, remaining, surprises,
                   chatInFlight, chatCalls, errors, result>>
    /\ UNCHANGED <<saveVars, appVars>>

\* a call of generateMashup(memories)
CallGenerateMashup ==
    /\ pc = "start"
    /\ pending' \in generateMashup(memories)
    /\ pc' = "mashup"
    /\ UNCHANGED <<serviceVars, memories, rooms, count, remaining, surprises,
                   chatInFlight, chatCalls, errors, result>>
    /\ UNCHANGED <<saveVars, appVars>>

\* a call of generateAIConnection(memories) whose AIService.chat call, if
\* it makes one, resolves: it returns null or its insight
ConnectionReturns ==
    /\ pc = "start"
    /\ pending' \in generateAIConnection(memories)
    /\ pc' = "connection"
    /\ chatCalls' = IF pending' = Null THEN chatCalls ELSE chatCalls + 1
    /\ UNCHANGED <<serviceVars, memories, rooms, count, remaining, surprises,
                   chatInFlight, errors, result>>
    /\ UNCHANGED <<saveVars, appVars>>

\* a call of generateAIConnection(memories) whose AIService.chat call
\* rejects: so does the call
ConnectionRejects ==
    /\ pc = "start"
    /\ Null \notin generateAIConnection(memories)
    /\ pc' = "connection_rejected"
    /\ chatCalls' = chatCalls + 1
    /\ errors' = errors + 1
    /\ UNCHANGED <<serviceVars, memories, rooms, count, remaining, surprises, pending,
                   chatInFlight, result>>
    /\ UNCHANGED <<saveVars, appVars>>

\* findOnThisDay on collections of memories of chosen ages
OnThisDaySpec == OnThisDayInit /\ [][CallFindOnThisDay]_vars

\* findPattern on short and on long collections
PatternSpec == PatternInit /\ [][CallFindPattern]_vars

\* generateNudge on collections spread over two rooms
NudgeSpec == NudgeInit /\ [][CallGenerateNudge]_vars

PairingNext ==
    \/ CallGenerateMashup
    \/ ConnectionReturns
    \/ ConnectionRejects

\* generateMashup and generateAIConnection
PairingSpec == PairingInit /\ [][PairingNext]_vars

(***************************************************************************)
(* Strings of the capture path are sequences of characters.                *)
(***************************************************************************)
UpperCaseLetters == <<"A", "B", "C", "D", "E", "F", "G", "H", "I", "J", "K", "L", "M", "N", "O", "P", "Q", "R", "S", "T", "U", "V", "W", "X", "Y", "Z">>

LowerCaseLetters == <<"a", "b", "c", "d", "e", "f", "g", "h", "i", "j", "k", "l", "m", "n", "o", "p", "q", "r", "s", "t", "u", "v", "w", "x", "y", "z">>

\* String.prototype.toLowerCase, one character
LowerChar(c) ==
    IF \E i \in 1..Len(UpperCaseLetters) : UpperCaseLetters[i] = c
    THEN LowerCaseLetters[CHOOSE i \in 1..Len(UpperCaseLetters) : UpperCaseLetters[i] = c]
    ELSE c

\* String.prototype.toLowerCase
toLowerCase(str) == [i \in 1..Len(str) |-> LowerChar(str[i])]

\* the characters \s matches among those of the texts
IsSpace(c) == c = " "

\* the positions at which a word of str starts
wordStarts(str) ==
    {i \in 1..Len(str) : ~IsSpace(str[i]) /\ (i = 1 \/ IsSpace(str[i - 1]))}

\* the position at which the word starting at position i ends
wordEnd(str, i) ==
    CHOOSE j \in i..Len(str) :
        /\ \A k \in i..j : ~IsSpace(str[k])
        /\ j = Len(str) \/ IsSpace(str[j + 1])

\* String.prototype.split(/\s+/): the words between runs of spaces, in
\* order (the empty strings it yields at a leading or trailing run are
\* left out: extractBasicTags drops them for their length)
split(str) ==
    LET starts == wordStarts(str)
        nth(k) == CHOOSE i \in starts : Cardinality({j \in starts : j < i}) = k - 1
    IN  [k \in 1..Cardinality(starts) |-> SubSeq(str, nth(k), wordEnd(str, nth(k)))]

\* w.replace(/[^a-z]/g, '')
stripNonLetters(w) == SelectSeq(w, LAMBDA c : Includes(LowerCaseLetters, c))

\* String.prototype.includes
includes(str, sub) ==
    \E i \in 1..(Len(str) + 1) :
        i + Len(sub) - 1 <= Len(str) /\ SubSeq(str, i, i + Len(sub) - 1) = sub

\* content.substring(0, 100) + (content.length > 100 ? '...' : '')
truncatedSummary(content) ==
    Take(content, 100) \o (IF Len(content) > 100 THEN <<".", ".", ".">> ELSE <<>>)

stopWords ==
    {<<"t", "h", "e">>, <<"a">>, <<"a", "n">>, <<"i", "s">>, <<"a", "r", "e">>,
     <<"w", "a", "s">>, <<"w", "e", "r", "e">>, <<"b", "e">>, <<"b", "e", "e", "n">>,
     <<"b", "e", "i", "n", "g">>, <<"h", "a", "v", "e">>, <<"h", "a", "s">>, <<"h", "a", "d">>,
     <<"d", "o">>, <<"d", "o", "e", "s">>, <<"d", "i", "d">>, <<"w", "i", "l", "l">>,
     <<"w", "o", "u", "l", "d">>, <<"c", "o", "u", "l", "d">>,
     <<"s", "h", "o", "u", "l", "d">>, <<"m", "a", "y">>, <<"m", "i", "g", "h", "t">>,
     <<"c", "a", "n">>, <<"s", "h", "a", "l", "l">>, <<"t", "o">>, <<"o", "f">>, <<"i", "n">>,
     <<"f", "o", "r">>, <<"o", "n">>, <<"w", "i", "t", "h">>, <<"a", "t">>, <<"b", "y">>,
     <<"f", "r", "o", "m">>, <<"i", "t">>, <<"t", "h", "i", "s">>, <<"t", "h", "a", "t">>,
     <<"i">>, <<"m", "e">>, <<"m", "y">>, <<"w", "e">>, <<"o", "u", "r">>, <<"y", "o", "u">>,
     <<"y", "o", "u", "r">>, <<"h", "e">>, <<"s", "h", "e">>, <<"t", "h", "e", "y">>,
     <<"t", "h", "e", "m">>, <<"a", "n", "d">>, <<"o", "r">>, <<"b", "u", "t">>,
     <<"n", "o", "t">>, <<"s", "o">>, <<"i", "f">>, <<"a", "b", "o", "u", "t">>,
     <<"j", "u", "s", "t">>, <<"a", "l", "s", "o">>, <<"t", "h", "e", "n">>,
     <<"t", "h", "a", "n">>, <<"v", "e", "r", "y">>, <<"r", "e", "a", "l", "l", "y">>,
     <<"t", "h", "i", "n", "k">>, <<"l", "i", "k", "e">>, <<"w", "a", "n", "t">>,
     <<"k", "n", "o", "w">>}

\* TalkScreen.extractBasicTags: the words of length > 3 that are no stop
\* words, by descending count (stable), the first four
extractBasicTags(str) ==
    LET words == split(toLowerCase(str))
        cleaned == [i \in 1..Len(words) |-> stripNonLetters(words[i])]
        kept == SelectSeq(cleaned, LAMBDA w : Len(w) > 3 /\ w \notin stopWords)
        keys == Distinct(kept)
        entries == SortAscending([i \in 1..Len(keys) |->
                       [key |-> 0 - Occurrences(kept, keys[i]), word |-> keys[i]]])
        top == Take(entries, 4)
    IN  [i \in 1..Len(top) |-> top[i].word]

(***************************************************************************)
(* JavaScript values of the gateway's reply, tagged by their type.         *)
(***************************************************************************)
Undefined == [t |-> "undefined"]

JsNull == [t |-> "null"]

JsString(chars) == [t |-> "string", v |-> chars]

JsNumber(n) == [t |-> "number", v |-> n]

JsArray(items) == [t |-> "array", v |-> items]

\* an object, by the three properties saveAsMemory reads
JsObject(tags, summary, suggestedRoom) ==
    [t |-> "object", tags |-> tags, summary |-> summary, suggestedRoom |-> suggestedRoom]

\* value.name, for a value that is neither null nor undefined
Property(value, name) == IF value.t = "object" THEN value[name] ELSE Undefined

\* the truthiness `if (suggestedRoom)` tests
Truthy(value) ==
    CASE value.t \in {"undefined", "null"} -> FALSE
      [] value.t = "string" -> value.v # <<>>
      [] value.t = "number" -> value.v # 0
      [] OTHER -> TRUE

(***************************************************************************)
(* The gateway: the outcomes of one AIService.chat call of a configured    *)
(* service.  A reply's text is given by what JSON.parse makes of it.       *)
(***************************************************************************)
NetworkError == [kind |-> "network_error"]

HttpError == [kind |-> "http_error"]

\* text that is no JSON: prose, or the '' chat returns for a response
\* without text content
MalformedText(body) == [kind |-> "text", wellFormed |-> FALSE, body |-> body]

JsonText(value) == [kind |-> "text", wellFormed |-> TRUE, value |-> value]

GatewayReplies ==
    <<NetworkError,
      HttpError,
      MalformedText("prose"),
      MalformedText("empty"),
      JsonText(JsObject(JsArray(<<<<"g", "a", "r", "d", "e", "n">>, <<"w", "a", "t", "e", "r">>>>), JsString(<<"A", " ", "p", "l", "a", "n">>),
                        JsString(<<"w", "o", "r", "k">>))),
      JsonText(JsObject(JsArray(<<<<"L", "a", "k", "e">>, <<"l", "a", "k", "e">>>>), JsString(<<"A", " ", "p", "l", "a", "n">>),
                        JsString(<<"G", "a", "r", "d", "e", "n">>))),
      JsonText(JsObject(JsArray(<<<<"g", "a", "r", "d", "e", "n">>>>), JsString(<<"A", " ", "p", "l", "a", "n">>), Undefined)),
      JsonText(JsObject(JsArray(<<<<"g", "a", "r", "d", "e", "n">>>>), JsString(<<"A", " ", "p", "l", "a", "n">>), JsNumber(42))),
      JsonText(JsObject(JsString(<<"g", "a", "r", "d", "e", "n">>), Undefined, Undefined)),
      JsonText(JsNull),
      JsonText(JsNumber(7))>>

\* AIService.chat of a configured service: it throws when fetch rejects or
\* the status is not OK, and returns the text otherwise
chatThrows(reply) == reply.kind \in {"network_error", "http_error"}

\* AIService.analyzeMemory: chat's error propagates; JSON.parse's value is
\* returned as it is; a parse error gives no tags and the truncated content
analyzeMemory(content, reply) ==
    IF chatThrows(reply) THEN [threw |-> TRUE]
    ELSE IF reply.wellFormed THEN [threw |-> FALSE, value |-> reply.value]
    ELSE [threw |-> FALSE,
          value |-> JsObject(JsArray(<<>>), JsString(truncatedSummary(content)), Undefined)]

\* saveAsMemory's tags, summary and suggestedRoom when the service is not
\* configured, or when the try around analyzeMemory catches
basicClassification(str) ==
    [tags |-> JsArray(extractBasicTags(str)), summary |-> Undefined,
     suggestedRoom |-> Undefined]

\* saveAsMemory lines 92-109: reading a property of null throws inside the try
classification(str, configured, reply) ==
    IF ~configured THEN basicClassification(str)
    ELSE LET analysis == analyzeMemory(str, reply)
         IN  IF analysis.threw \/ analysis.value.t \in {"null", "undefined"}
             THEN basicClassification(str)
             ELSE [tags |-> Property(analysis.value, "tags"),
                   summary |-> Property(analysis.value, "summary"),
                   suggestedRoom |-> Property(analysis.value, "suggestedRoom")]

\* positions of the rooms whose lower-cased name includes the lower-cased suggestion
matchingRooms(rms, suggestedRoom) ==
    {i \in 1..Len(rms) : includes(toLowerCase(rms[i].name), toLowerCase(suggestedRoom.v))}

\* saveAsMemory lines 112-118: suggestedRoom!.toLowerCase() throws a
\* TypeError for a truthy value that is no string, when find calls the
\* predicate, that is when there is a room
roomLookup(rms, suggestedRoom) ==
    IF ~Truthy(suggestedRoom) THEN [threw |-> FALSE, roomId |-> NoRoom]
    ELSE IF Len(rms) = 0 THEN [threw |-> FALSE, roomId |-> NoRoom]
    ELSE IF suggestedRoom.t # "string" THEN [threw |-> TRUE]
    ELSE LET found == matchingRooms(rms, suggestedRoom)
         IN  IF found = {} THEN [threw |-> FALSE, roomId |-> NoRoom]
             ELSE [threw |-> FALSE,
                   roomId |-> rms[CHOOSE i \in found : \A j \in found : i <= j].id]

(***************************************************************************)
(* The store (appReducer).                                                 *)
(***************************************************************************)
\* case 'ADD_MEMORY'
addMemoryToMemories(mems, newMemory) == <<newMemory>> \o mems

addMemoryToRooms(rms, newMemory) ==
    IF newMemory.roomId # NoRoom
    THEN [i \in 1..Len(rms) |->
            IF rms[i].id = newMemory.roomId
            THEN [rms[i] EXCEPT !.memoryCount = rms[i].memoryCount + 1]
            ELSE rms[i]]
    ELSE rms

(***************************************************************************)
(* The inputs of a saveAsMemory call.                                      *)
(***************************************************************************)
Texts ==
    <<<<"I", " ", "l", "o", "v", "e", " ", "h", "i", "k", "i", "n", "g", " ", "o", "n", " ",
        "w", "e", "e", "k", "e", "n", "d", "s", " ", "n", "e", "a", "r", " ", "t", "h", "e",
        " ", "l", "a", "k", "e">>,
      <<"L", "a", "k", "e", " ", "l", "a", "k", "e", " ", "L", "A", "K", "E", "!", " ", "H",
        "i", "k", "i", "n", "g", ",", " ", "h", "i", "k", "i", "n", "g", ".">>,
      <<"g", "o", " ", "o", "n">>,
      <<"I", " ", "r", "e", "a", "l", "l", "y", " ", "w", "a", "n", "t", " ", "t", "o", " ",
        "r", "e", "m", "e", "m", "b", "e", "r", " ", "t", "h", "a", "t", " ", "t", "h", "e",
        " ", "g", "a", "r", "d", "e", "n", " ", "p", "r", "o", "j", "e", "c", "t", " ", "n",
        "e", "e", "d", "s", " ", "w", "a", "t", "e", "r", " ", "p", "u", "m", "p", "s", " ",
        "a", "n", "d", " ", "t", "h", "e", " ", "g", "a", "r", "d", "e", "n", " ", "f", "e",
        "n", "c", "e", " ", "n", "e", "e", "d", "s", " ", "p", "a", "i", "n", "t", " ", "s",
        "o", "o", "n">>>>

RoomNames == <<<<"W", "o", "r", "k">>, <<"I", "d", "e", "a", "s", " ", "L", "a", "b">>, <<"P", "e", "r", "s", "o", "n", "a", "l">>>>

\* state.rooms: rooms created with memoryCount 0
StoreRooms(n) == [j \in 1..n |-> [id |-> 100 + j, name |-> Cycle(RoomNames, j), memoryCount |-> 0]]

(***************************************************************************)
(* saveAsMemory as a state machine.                                        *)
(***************************************************************************)
SaveInit ==
    /\ apiKey \in ApiKeys
    /\ now = Clock
    /\ EngineIdle
    /\ \E i \in 1..Len(Texts) : text = Texts[i]
    /\ isVoice \in BOOLEAN
    /\ storeMemories = <<>>
    /\ \E k \in 0..MaxRooms : storeRooms = StoreRooms(k)
    /\ savePc = "start"
    /\ gatewayReply = NoReply
    /\ dispatched = 0
    /\ saveErrors = 0
    /\ IdleBut({})

\* the Memory saveAsMemory builds (lines 120-131)
newMemory(c, roomId) ==
    [id |-> Len(storeMemories) + 1, content |-> text, summary |-> c.summary,
     type |-> IF isVoice THEN "voice" ELSE "conversation", tags |-> c.tags,
     connections |-> <<>>, roomId |-> roomId, createdAt |-> now, updatedAt |-> now]

\* saveAsMemory from the room lookup on (lines 111-136), for the
\* classification c: the memory is dispatched, unless the lookup throws and
\* the outer catch logs the error
FinishSave(c) ==
    LET lookup == roomLookup(storeRooms, c.suggestedRoom)
    IN  /\ IF lookup.threw
           THEN /\ saveErrors' = saveErrors + 1
                /\ UNCHANGED <<storeMemories, storeRooms, dispatched>>
           ELSE /\ storeMemories' = addMemoryToMemories(storeMemories, newMemory(c, lookup.roomId))
                /\ storeRooms' = addMemoryToRooms(storeRooms, newMemory(c, lookup.roomId))
                /\ dispatched' = dispatched + 1
                /\ UNCHANGED saveErrors
        /\ savePc' = "done"

\* the service is not configured: the call runs to its end without awaiting
SaveUnconfigured ==
    /\ savePc = "start"
    /\ ~isConfigured
    /\ FinishSave(classification(text, FALSE, gatewayReply))
    /\ UNCHANGED <<appVars, serviceVars, engineVars, text, isVoice, gatewayReply>>

\* the service is configured: analyzeMemory calls chat and the call awaits
SaveCallsGateway ==
    /\ savePc = "start"
    /\ isConfigured
    /\ savePc' = "await"
    /\ UNCHANGED <<appVars, serviceVars, engineVars, text, isVoice, storeMemories, storeRooms,
                   gatewayReply, dispatched, saveErrors>>

\* chat settles, with any outcome, and the call runs to its end
SaveGatewaySettles ==
    /\ savePc = "await"
    /\ \E i \in 1..Len(GatewayReplies) :
          /\ gatewayReply' = GatewayReplies[i]
          /\ FinishSave(classification(text, TRUE, GatewayReplies[i]))
    /\ UNCHANGED <<appVars, serviceVars, engineVars, text, isVoice>>

SaveNext ==
    \/ SaveUnconfigured
    \/ SaveCallsGateway
    \/ SaveGatewaySettles

SaveSpec == SaveInit /\ [][SaveNext]_vars

(***************************************************************************)
(* AIService.chat as a state machine.                                      *)
(***************************************************************************)
\* the Message[] arguments
ChatMessageLists ==
    <<<<>>,
      <<[id |-> "m1", role |-> "user", content |-> "What did I save?", timestamp |-> "t1"]>>,
      <<[id |-> "m1", role |-> "user", content |-> "What did I save?", timestamp |-> "t1"],
        [id |-> "m2", role |-> "assistant", content |-> "Three notes.", timestamp |-> "t2"]>>,
      <<[id |-> "m1", role |-> "user", content |-> "What did I save?", timestamp |-> "t1"],
        [id |-> "m2", role |-> "assistant", content |-> "Three notes.", timestamp |-> "t2"],
        [id |-> "m3", role |-> "user", content |-> "Show them", timestamp |-> "t3"]>>>>

\* chat lines 42-55: the request body
requestBody(messages, prompt) ==
    LET formattedMessages ==
            [i \in 1..Len(messages) |->
                [role |-> messages[i].role, content |-> messages[i].content]]
    IN  IF prompt # ""
        THEN [model |-> "claude-sonnet-4-5-20250929", max_tokens |-> 1024,
              messages |-> formattedMessages, system |-> prompt]
        ELSE [model |-> "claude-sonnet-4-5-20250929", max_tokens |-> 1024,
              messages |-> formattedMessages]

\* Response.ok
ResponseOk(status) == status >= 200 /\ status <= 299

\* what response.json() makes of the upstream bodies: a rejection for a body
\* that is no JSON, the parsed value otherwise
ResponseBodies ==
    <<[parses |-> FALSE],
      [parses |-> TRUE, value |-> JsNull],
      [parses |-> TRUE, value |-> [t |-> "object", content |-> Undefined]],
      [parses |-> TRUE, value |-> [t |-> "object", content |-> JsArray(<<>>)]],
      [parses |-> TRUE,
       value |-> [t |-> "object", content |-> JsArray(<<[t |-> "object", text |-> Undefined]>>)]],
      [parses |-> TRUE,
       value |-> [t |-> "object",
                  content |-> JsArray(<<[t |-> "object", text |-> [t |-> "string", v |-> ""]]>>)]],
      [parses |-> TRUE,
       value |-> [t |-> "object",
                  content |-> JsArray(<<[t |-> "object", text |-> [t |-> "string", v |-> "Hello"]]>>)]],
      [parses |-> TRUE,
       value |-> [t |-> "object",
                  content |-> JsArray(<<[t |-> "object", text |-> [t |-> "string", v |-> "Hello"]],
                                        [t |-> "object", text |-> [t |-> "string", v |-> "again"]]>>)]]>>

\* result.content?.[0]?.text, for a result that is an object
firstText(value) ==
    IF value.content.t # "array" THEN Undefined
    ELSE IF Len(value.content.v) = 0 THEN Undefined
    ELSE value.content.v[1].text

\* chat line 73: result.content?.[0]?.text || ''; reading content of null
\* throws a TypeError
chatReturn(value) ==
    IF value.t = "null" THEN [threw |-> TRUE, error |-> "TypeError"]
    ELSE LET first == firstText(value)
         IN  IF first.t = "string" /\ first.v # ""
             THEN [threw |-> FALSE, text |-> first.v]
             ELSE [threw |-> FALSE, text |-> ""]

ChatInit ==
    /\ apiKey \in ApiKeys
    /\ now = Clock
    /\ EngineIdle
    /\ SaveIdle
    /\ chatPc = "start"
    /\ \E i \in 1..Len(ChatMessageLists) : chatMessages = ChatMessageLists[i]
    \* '' stands for an absent systemPrompt (both are falsy)
    /\ systemPrompt \in {"", "You are a thinking partner"}
    /\ chatRequest = None
    /\ chatResponse = None
    /\ chatResult = None
    /\ IdleBut({"chat"})

\* lines 38-40: the service is not configured
ChatNotConfigured ==
    /\ chatPc = "start"
    /\ ~isConfigured
    /\ chatPc' = "done"
    /\ chatResult' = [threw |-> TRUE, error |-> "Anthropic API key not configured"]
    /\ UNCHANGED <<serviceVars, engineVars, screenVars, saveVars, chatMessages, systemPrompt,
                   chatRequest, chatResponse, dispatchVars, persistVars, transcribeVars, voiceVars>>

\* lines 42-65: the request is built and fetch is awaited
ChatFetches ==
    /\ chatPc = "start"
    /\ isConfigured
    /\ chatRequest' = requestBody(chatMessages, systemPrompt)
    /\ chatPc' = "fetch"
    /\ UNCHANGED <<serviceVars, engineVars, screenVars, saveVars, chatMessages, systemPrompt,
                   chatResponse, chatResult, dispatchVars, persistVars, transcribeVars, voiceVars>>

\* fetch rejects (no network): the rejection propagates
FetchRejects ==
    /\ chatPc = "fetch"
    /\ chatPc' = "done"
    /\ chatResult' = [threw |-> TRUE, error |-> "Network request failed"]
    /\ UNCHANGED <<serviceVars, engineVars, screenVars, saveVars, chatMessages, systemPrompt,
                   chatRequest, chatResponse, dispatchVars, persistVars, transcribeVars, voiceVars>>

\* fetch resolves with a response; line 67 tests response.ok
FetchResolves ==
    /\ chatPc = "fetch"
    /\ \E status \in {200, 400, 401, 429, 500, 529}, b \in 1..Len(ResponseBodies) :
          /\ chatResponse' = [status |-> status, body |-> ResponseBodies[b]]
          /\ chatPc' = IF ResponseOk(status) THEN "json" ELSE "text"
    /\ UNCHANGED <<serviceVars, engineVars, screenVars, saveVars, chatMessages, systemPrompt,
                   chatRequest, chatResult, dispatchVars, persistVars, transcribeVars, voiceVars>>

\* lines 68-69: the error text is read and the error thrown
ChatThrowsHttpError ==
    /\ chatPc = "text"
    /\ chatPc' = "done"
    /\ chatResult' = [threw |-> TRUE, error |-> "AI API error", status |-> chatResponse.status]
    /\ UNCHANGED <<serviceVars, engineVars, screenVars, saveVars, chatMessages, systemPrompt,
                   chatRequest, chatResponse, dispatchVars, persistVars, transcribeVars, voiceVars>>

\* lines 72-73: response.json() rejects for a body that is no JSON, and the
\* rejection propagates; otherwise the first block's text or '' is returned
ChatReadsBody ==
    /\ chatPc = "json"
    /\ chatPc' = "done"
    /\ chatResult' = IF chatResponse.body.parses
                     THEN chatReturn(chatResponse.body.value)
                     ELSE [threw |-> TRUE, error |-> "SyntaxError"]
    /\ UNCHANGED <<serviceVars, engineVars, screenVars, saveVars, chatMessages, systemPrompt,
                   chatRequest, chatResponse, dispatchVars, persistVars, transcribeVars, voiceVars>>

ChatNext ==
    \/ ChatNotConfigured
    \/ ChatFetches
    \/ FetchRejects
    \/ FetchResolves
    \/ ChatThrowsHttpError
    \/ ChatReadsBody

ChatSpec == ChatInit /\ [][ChatNext]_vars

(***************************************************************************)
(* The store as a state machine: the actions the screens dispatch.         *)
(***************************************************************************)
MaxStoreRooms == 2

MaxStoreMemories == 3

MaxTicks == 2

\* case 'DELETE_MEMORY': memories
deleteMemoryFromMemories(mems, id) == SelectSeq(mems, LAMBDA memory : memory.id # id)

\* case 'DELETE_MEMORY' without the decrement of the room's counter
deleteMemoryFromRooms_NoDecrement(mems, rms, id) == rms

\* case 'DELETE_MEMORY': rooms; deleted is the first memory with the id
deleteMemoryFromRooms(mems, rms, id) ==
    LET found == {i \in 1..Len(mems) : mems[i].id = id}
    IN  IF found = {} THEN rms
        ELSE LET deleted == mems[CHOOSE i \in found : \A j \in found : i <= j]
             IN  IF deleted.roomId # NoRoom
                 THEN [i \in 1..Len(rms) |->
                         IF rms[i].id = deleted.roomId
                         THEN [rms[i] EXCEPT !.memoryCount = Max(0, rms[i].memoryCount - 1)]
                         ELSE rms[i]]
                 ELSE rms

\* case 'DELETE_ROOM': rooms
deleteRoomFromRooms(rms, id) == SelectSeq(rms, LAMBDA room : room.id # id)

\* { ...memory, ...updates }
Spread(memory, updates) ==
    [f \in DOMAIN memory |-> IF f \in DOMAIN updates THEN updates[f] ELSE memory[f]]

\* case 'UPDATE_MEMORY'
updateMemory(mems, id, updates, time) ==
    [i \in 1..Len(mems) |->
        IF mems[i].id = id
        THEN [Spread(mems[i], updates) EXCEPT !.updatedAt = time]
        ELSE mems[i]]

\* the Room handleCreateRoom builds, the k-th of the run
createdRoom(k) == [id |-> 100 + k, name |-> Cycle(RoomNames, k), memoryCount |-> 0]

\* the Memory a screen builds, the k-th of the run
createdMemory(k, roomId, time) ==
    [id |-> k, content |-> "note", roomId |-> roomId, createdAt |-> time, updatedAt |-> time]

\* the ids of the rooms created so far: the room a memory is filed under is
\* taken from a snapshot of state.rooms, which may be stale
KnownRoomIds == {100 + k : k \in 1..roomsCreated}

\* the updates payloads of UPDATE_MEMORY (Partial<Memory>)
UpdatePayloads ==
    <<[content |-> "edited"],
      [updatedAt |-> 0],
      [id |-> 9, createdAt |-> 0, roomId |-> 101]>>

StoreInit ==
    /\ apiKey \in ApiKeys
    /\ now = Clock
    /\ EngineIdle
    /\ SaveIdle
    /\ IdleBut({"dispatch"})
    /\ lastAction = None
    /\ roomsCreated = 0
    /\ memoriesCreated = 0

\* time passes (new Date())
Tick ==
    /\ now < Clock + MaxTicks
    /\ now' = now + 1
    /\ UNCHANGED <<apiKey, engineVars, saveVars, appVars>>

\* PalaceScreen.handleCreateRoom; case 'ADD_ROOM': [...state.rooms, action.payload]
AddRoom ==
    /\ roomsCreated < MaxStoreRooms
    /\ roomsCreated' = roomsCreated + 1
    /\ lastAction' = [type |-> "ADD_ROOM", payload |-> createdRoom(roomsCreated + 1)]
    /\ storeRooms' = Append(storeRooms, createdRoom(roomsCreated + 1))
    /\ UNCHANGED <<serviceVars, engineVars, screenVars, chatVars, persistVars, transcribeVars, voiceVars, text, isVoice, storeMemories, savePc,
                   gatewayReply, dispatched, saveErrors, memoriesCreated>>

\* dispatch(actions.addMemory(memory))
AddMemory(roomId) ==
    /\ memoriesCreated < MaxStoreMemories
    /\ memoriesCreated' = memoriesCreated + 1
    /\ LET memory == createdMemory(memoriesCreated + 1, roomId, now)
       IN  /\ lastAction' = [type |-> "ADD_MEMORY", payload |-> memory]
           /\ storeMemories' = addMemoryToMemories(storeMemories, memory)
           /\ storeRooms' = addMemoryToRooms(storeRooms, memory)
    /\ UNCHANGED <<serviceVars, engineVars, screenVars, chatVars, persistVars, transcribeVars, voiceVars, text, isVoice, savePc, gatewayReply,
                   dispatched, saveErrors, roomsCreated>>

\* dispatch(actions.deleteMemory(id))
DeleteMemory(id) ==
    /\ lastAction' = [type |-> "DELETE_MEMORY", payload |-> id]
    /\ storeMemories' = deleteMemoryFromMemories(storeMemories, id)
    /\ storeRooms' = deleteMemoryFromRooms(storeMemories, storeRooms, id)
    /\ UNCHANGED <<serviceVars, engineVars, screenVars, chatVars, persistVars, transcribeVars, voiceVars, text, isVoice, savePc, gatewayReply,
                   dispatched, saveErrors, roomsCreated, memoriesCreated>>

\* the DELETE_ROOM case with the room's memories removed as well
DeleteRoom_Cascade(id) ==
    /\ lastAction' = [type |-> "DELETE_ROOM", payload |-> id]
    /\ storeRooms' = deleteRoomFromRooms(storeRooms, id)
    /\ storeMemories' = SelectSeq(storeMemories, LAMBDA memory : memory.roomId # id)
    /\ UNCHANGED <<serviceVars, engineVars, screenVars, chatVars, persistVars, transcribeVars, voiceVars, text, isVoice, savePc, gatewayReply,
                   dispatched, saveErrors, roomsCreated, memoriesCreated>>

\* PalaceScreen.handleDeleteRoom: dispatch(actions.deleteRoom(room.id)); case
\* 'DELETE_ROOM' filters the rooms and spreads the rest of the state
DeleteRoom(id) ==
    /\ lastAction' = [type |-> "DELETE_ROOM", payload |-> id]
    /\ storeRooms' = deleteRoomFromRooms(storeRooms, id)
    /\ storeMemories' = storeMemories
    /\ UNCHANGED <<serviceVars, engineVars, screenVars, chatVars, persistVars, transcribeVars, voiceVars, text, isVoice, savePc, gatewayReply,
                   dispatched, saveErrors, roomsCreated, memoriesCreated>>

\* dispatch(actions.updateMemory(id, updates))
UpdateMemory(id, updates) ==
    /\ lastAction' = [type |-> "UPDATE_MEMORY", payload |-> [id |-> id, updates |-> updates]]
    /\ storeMemories' = updateMemory(storeMemories, id, updates, now)
    /\ UNCHANGED <<serviceVars, engineVars, screenVars, chatVars, persistVars, transcribeVars, voiceVars, text, isVoice, storeRooms, savePc,
                   gatewayReply, dispatched, saveErrors, roomsCreated, memoriesCreated>>

StoreNext ==
    \/ Tick
    \/ AddRoom
    \/ \E roomId \in {NoRoom} \cup KnownRoomIds : AddMemory(roomId)
    \/ \E id \in 1..MaxStoreMemories : DeleteMemory(id)
    \/ \E id \in {100 + k : k \in 1..MaxStoreRooms} : DeleteRoom(id)

\* the four actions of rooms and memories
StoreSpec == StoreInit /\ [][StoreNext]_vars

StoreUpdateNext ==
    \/ Tick
    \/ AddMemory(NoRoom)
    \/ \E id \in 1..MaxStoreMemories, u \in 1..Len(UpdatePayloads) :
          UpdateMemory(id, UpdatePayloads[u])

\* memories added and updated
StoreUpdateSpec == StoreInit /\ [][StoreUpdateNext]_vars

\* rooms and memories added, and memories moved to another room by
\* UPDATE_MEMORY with a roomId
StoreMoveNext ==
    \/ AddRoom
    \/ \E roomId \in {NoRoom} \cup KnownRoomIds : AddMemory(roomId)
    \/ \E id \in 1..MaxStoreMemories, roomId \in {NoRoom} \cup KnownRoomIds :
          UpdateMemory(id, [roomId |-> roomId])

StoreMoveSpec == StoreInit /\ [][StoreMoveNext]_vars

(***************************************************************************)
(* AppProvider at mount: loadPersistedData and the persistence effects.    *)
(* A slice's value is "initial" (that of initialState) or "persisted" (the *)
(* data of the previous run); a key that was never written is "absent".    *)
(***************************************************************************)
STORAGE_KEYS == {"settings", "rooms", "memories", "conversations"}

\* AsyncStorage.getItem(key), issued
GetItem(key) == [op |-> "getItem", key |-> key]

\* AsyncStorage.setItem(key, JSON.stringify(value)), issued by the effects'
\* run number `run`
SetItem(key, value, run) == [op |-> "setItem", key |-> key, value |-> value, run |-> run]

\* the operations issued while the effects of the first render run: the
\* four reads of loadPersistedData, then the four writes of the initial state
MountOps ==
    {GetItem(k) : k \in STORAGE_KEYS} \cup {SetItem(k, "initial", 1) : k \in STORAGE_KEYS}

\* `if (json)`: getItem's null is falsy, a stored JSON text is truthy
Stored(value) == value # "absent"

\* the state after the dispatches of loadPersistedData: SET_ROOMS,
\* SET_MEMORIES and SET_CONVERSATIONS replace the slice, UPDATE_SETTINGS
\* spreads the stored settings over the current ones
loadedState(state, read) ==
    [k \in STORAGE_KEYS |-> IF Stored(read[k]) THEN read[k] ELSE state[k]]

\* the writes of the effects that run after those dispatches: one for each
\* slice that was dispatched (its object is a new one)
ReloadOps(state, read) ==
    {SetItem(k, loadedState(state, read)[k], 2) : k \in {j \in STORAGE_KEYS : Stored(read[j])}}

PersistInit ==
    /\ apiKey \in ApiKeys
    /\ now = Clock
    /\ EngineIdle
    /\ SaveIdle
    /\ IdleBut({"persist"})
    /\ disk \in [STORAGE_KEYS -> {"absent", "persisted"}]
    /\ diskAtStart = disk
    /\ storageOps = MountOps
    /\ reads = [k \in STORAGE_KEYS |-> "unread"]
    /\ appState = [k \in STORAGE_KEYS |-> "initial"]
    /\ loadPc = "reading"

\* the storage carries out a getItem
StorageReads(key) ==
    /\ GetItem(key) \in storageOps
    /\ reads' = [reads EXCEPT ![key] = disk[key]]
    /\ storageOps' = storageOps \ {GetItem(key)}
    /\ UNCHANGED <<serviceVars, engineVars, screenVars, saveVars, chatVars, dispatchVars, transcribeVars, voiceVars, disk,
                   diskAtStart, appState, loadPc>>

\* the storage carries out a setItem
StorageWrites(write) ==
    /\ write \in storageOps
    /\ write.op = "setItem"
    /\ disk' = [disk EXCEPT ![write.key] = write.value]
    /\ storageOps' = storageOps \ {write}
    /\ UNCHANGED <<serviceVars, engineVars, screenVars, saveVars, chatVars, dispatchVars, transcribeVars, voiceVars, diskAtStart,
                   reads, appState, loadPc>>

\* Promise.all resolved: loadPersistedData dispatches what it read, and the
\* effects of the changed slices write them
LoadDispatches ==
    /\ loadPc = "reading"
    /\ \A k \in STORAGE_KEYS : GetItem(k) \notin storageOps
    /\ appState' = loadedState(appState, reads)
    /\ storageOps' = storageOps \cup ReloadOps(appState, reads)
    /\ loadPc' = "done"
    /\ UNCHANGED <<serviceVars, engineVars, screenVars, saveVars, chatVars, dispatchVars, transcribeVars, voiceVars, disk,
                   diskAtStart, reads>>

PersistNext ==
    \/ \E k \in STORAGE_KEYS : StorageReads(k)
    \/ \E write \in storageOps : StorageWrites(write)
    \/ LoadDispatches

PersistSpec == PersistInit /\ [][PersistNext]_vars

(***************************************************************************)
(* TranscriptionService.transcribe as a state machine.  Error messages are *)
(* sequences of characters: the catch block classifies an error by         *)
(* searching its message.                                                  *)
(***************************************************************************)
maxRetries == 3

retryDelayMs == 1000

\* values of process.env.EXPO_PUBLIC_OPENAI_API_KEY || ''
OpenAIKeys == {"", " ", "sk-openai-key"}

\* !this.apiKey || this.apiKey.trim() === ''
keyMissing(key) == key = "" \/ Trim(key) = ""

DigitChars == <<"0", "1", "2", "3", "4", "5", "6", "7", "8", "9">>

\* a three-digit status interpolated into a template string
StatusText(status) ==
    <<DigitChars[(status \div 100) + 1], DigitChars[((status \div 10) % 10) + 1],
      DigitChars[(status % 10) + 1]>>

\* String.prototype.trim
trim(str) ==
    LET inner == {i \in 1..Len(str) : ~IsSpace(str[i])}
    IN  IF inner = {} THEN <<>>
        ELSE SubSeq(str, CHOOSE i \in inner : \A j \in inner : i <= j,
                         CHOOSE i \in inner : \A j \in inner : i >= j)

\* /API error \(4\d{2}\)/.test(message)
clientErrorPattern(message) ==
    \E i \in 1..Len(message) :
        /\ i + 14 <= Len(message)
        /\ SubSeq(message, i, i + 11) = <<"A", "P", "I", " ", "e", "r", "r", "o", "r", " ", "(", "4">>
        /\ Includes(DigitChars, message[i + 12])
        /\ Includes(DigitChars, message[i + 13])
        /\ message[i + 14] = ")"

\* the test of the catch block, lines 183-187
notRetried(message) ==
    \/ includes(message, <<"n", "o", "t", " ", "c", "o", "n", "f", "i", "g", "u", "r", "e", "d">>)
    \/ includes(message, <<"n", "o", "t", " ", "f", "o", "u", "n", "d">>)
    \/ clientErrorPattern(message)

\* the delay of line 193 with the exponent dropped
retryDelay_Constant(n) == retryDelayMs

\* line 193: this.retryDelayMs * Math.pow(2, attempt - 1)
retryDelay(n) == retryDelayMs * 2 ^ (n - 1)

\* lines 149-157: errorJson.error?.message || errorText, for a body given by
\* its text and the error.message JSON.parse finds in it (none for a text
\* that is no JSON or has no such property)
errorMessage(body) == IF body.message # <<>> THEN body.message ELSE body.text

\* lines 161 and 165
apiErrorMessage(status, body) ==
    <<"O", "p", "e", "n", "A", "I", " ", "A", "P", "I", " ", "e", "r", "r", "o", "r", " ", "(">> \o StatusText(status) \o <<")", ":", " ">> \o errorMessage(body)

\* the ways an attempt can go: createFormData finds no audio file, fetch
\* rejects, a response that is not OK arrives, or an OK one, whose body
\* response.json() parses or not
AttemptOutcomes ==
    <<[kind |-> "file"],
      [kind |-> "network", message |-> <<"N", "e", "t", "w", "o", "r", "k", " ", "r", "e", "q", "u", "e", "s", "t", " ", "f", "a", "i", "l", "e", "d">>],
      [kind |-> "http", status |-> 500,
       body |-> [text |-> <<"I", "n", "t", "e", "r", "n", "a", "l", " ", "S", "e", "r", "v", "e", "r", " ", "E", "r", "r", "o", "r">>,
                 message |-> <<>>]],
      [kind |-> "http", status |-> 503,
       body |-> [text |-> <<"{", ".", ".", ".", "}">>,
                 message |-> <<"m", "o", "d", "e", "l", " ", "n", "o", "t", " ", "f", "o", "u", "n", "d">>]],
      [kind |-> "http", status |-> 400,
       body |-> [text |-> <<"{", ".", ".", ".", "}">>,
                 message |-> <<"I", "n", "v", "a", "l", "i", "d", " ", "f", "i", "l", "e", " ", "f", "o", "r", "m", "a", "t">>]],
      [kind |-> "http", status |-> 401,
       body |-> [text |-> <<"U", "n", "a", "u", "t", "h", "o", "r", "i", "z", "e", "d">>,
                 message |-> <<>>]],
      [kind |-> "http", status |-> 429,
       body |-> [text |-> <<"{", ".", ".", ".", "}">>,
                 message |-> <<"R", "a", "t", "e", " ", "l", "i", "m", "i", "t", " ", "r", "e", "a", "c", "h", "e", "d">>]],
      [kind |-> "ok", status |-> 200, parses |-> TRUE, text |-> <<" ", "h", "e", "l", "l", "o", " ", "w", "o", "r", "l", "d", " ">>],
      [kind |-> "ok", status |-> 200, parses |-> TRUE, text |-> <<>>],
      [kind |-> "ok", status |-> 200, parses |-> FALSE, text |-> <<>>]>>

\* the error an attempt throws inside the try, or the text it returns
attemptResult(outcome) ==
    CASE outcome.kind = "file" ->
            [threw |-> TRUE, message |-> <<"A", "u", "d", "i", "o", " ", "f", "i", "l", "e", " ", "n", "o", "t", " ", "f", "o", "u", "n", "d", " ", "a", "t", " ", "f", "i", "l", "e", ":", "/", "/", "/", "r", "e", "c", ".", "m", "4", "a">>]
      [] outcome.kind = "network" -> [threw |-> TRUE, message |-> outcome.message]
      [] outcome.kind = "http" ->
            [threw |-> TRUE, message |-> apiErrorMessage(outcome.status, outcome.body)]
      [] outcome.kind = "ok" /\ ~outcome.parses ->
            [threw |-> TRUE, message |-> <<"J", "S", "O", "N", " ", "P", "a", "r", "s", "e", " ", "e", "r", "r", "o", "r", ":", " ", "U", "n", "e", "x", "p", "e", "c", "t", "e", "d", " ", "t", "o", "k", "e", "n">>]
      [] outcome.kind = "ok" /\ outcome.parses /\ outcome.text = <<>> ->
            [threw |-> TRUE, message |-> <<"N", "o", " ", "t", "r", "a", "n", "s", "c", "r", "i", "p", "t", "i", "o", "n", " ", "t", "e", "x", "t", " ", "i", "n", " ", "r", "e", "s", "p", "o", "n", "s", "e">>]
      [] OTHER -> [threw |-> FALSE, text |-> trim(outcome.text)]

TranscribeInit ==
    /\ apiKey \in ApiKeys
    /\ now = Clock
    /\ EngineIdle
    /\ SaveIdle
    /\ IdleBut({"transcribe"})
    /\ openaiKey \in OpenAIKeys
    /\ trPc = "start"
    /\ attempt = 0
    /\ attemptLog = <<>>
    /\ waits = <<>>
    /\ lastError = None
    /\ trResult = None

\* line 129: validateApiKey throws before the loop, and the call rejects
KeyMissing ==
    /\ trPc = "start"
    /\ keyMissing(openaiKey)
    /\ trPc' = "done"
    /\ trResult' = [threw |-> TRUE, message |-> <<"O", "p", "e", "n", "A", "I", " ", "A", "P", "I", " ", "k", "e", "y", " ", "n", "o", "t", " ", "c", "o", "n", "f", "i", "g", "u", "r", "e", "d", ".">>]
    /\ UNCHANGED <<serviceVars, engineVars, screenVars, saveVars, chatVars, dispatchVars, persistVars, voiceVars,
                   openaiKey, attempt, attemptLog, waits, lastError>>

\* lines 131-134: the loop is entered
EnterLoop ==
    /\ trPc = "start"
    /\ ~keyMissing(openaiKey)
    /\ attempt' = 1
    /\ trPc' = "attempt"
    /\ UNCHANGED <<serviceVars, engineVars, screenVars, saveVars, chatVars, dispatchVars, persistVars, voiceVars,
                   openaiKey, attemptLog, waits, lastError, trResult>>

\* lines 135-197: one attempt ends with the outcome; a failure reaches the
\* catch block, which rethrows, sleeps, or lets the loop go on
AttemptEnds(outcome) ==
    LET r == attemptResult(outcome)
        retried == r.threw /\ ~notRetried(r.message) /\ attempt < maxRetries
    IN  /\ trPc = "attempt"
        /\ attemptLog' = Append(attemptLog, [outcome |-> outcome, failed |-> r.threw,
                                              retried |-> retried])
        /\ IF ~r.threw
           THEN /\ trPc' = "done"
                /\ trResult' = r
                /\ UNCHANGED <<waits, lastError>>
           ELSE /\ lastError' = [kind |-> "error", message |-> r.message]
                /\ IF notRetried(r.message)
                   THEN /\ trPc' = "done"
                        /\ trResult' = r
                        /\ UNCHANGED waits
                   ELSE IF attempt < maxRetries
                   THEN /\ trPc' = "sleep"
                        /\ waits' = Append(waits, retryDelay(attempt))
                        /\ UNCHANGED trResult
                   ELSE /\ trPc' = "done"
                        /\ trResult' = [threw |-> TRUE,
                                         message |-> <<"T", "r", "a", "n", "s", "c", "r", "i", "p", "t", "i", "o", "n", " ", "f", "a", "i", "l", "e", "d", " ", "a", "f", "t", "e", "r", " ", "3", " ", "a", "t", "t", "e", "m", "p", "t", "s", ":", " ">>
                                                     \o r.message]
                        /\ UNCHANGED waits
        /\ UNCHANGED <<serviceVars, engineVars, screenVars, saveVars, chatVars, dispatchVars, persistVars, voiceVars,
                       openaiKey, attempt>>

\* the timer of sleep fires and the next attempt starts
SleepEnds ==
    /\ trPc = "sleep"
    /\ attempt' = attempt + 1
    /\ trPc' = "attempt"
    /\ UNCHANGED <<serviceVars, engineVars, screenVars, saveVars, chatVars, dispatchVars, persistVars, voiceVars,
                   openaiKey, attemptLog, waits, lastError, trResult>>

TranscribeNext ==
    \/ KeyMissing
    \/ EnterLoop
    \/ \E i \in 1..Len(AttemptOutcomes) : AttemptEnds(AttemptOutcomes[i])
    \/ SleepEnds

TranscribeSpec == TranscribeInit /\ [][TranscribeNext]_vars

\* every awaited promise settles and every timer fires
TranscribeFairSpec == TranscribeSpec /\ WF_vars(TranscribeNext)

(***************************************************************************)
(* VoiceService: startRecording, stopRecording and cancelRecording calls,  *)
(* interleaved at their await points.  A call is a record of its kind, its *)
(* position, the Recording its pending operation acts on, and whether it   *)
(* is the stopRecording that startRecording awaits (line 96).              *)
(***************************************************************************)
MaxVoiceCalls == 3

Call(kind, at, rec, nested) == [kind |-> kind, pc |-> at, rec |-> rec, nested |-> nested]

\* the call c moves to the position, its operation acting on rec
Moved(c, at, rec) == [voiceCalls EXCEPT ![c].pc = at, ![c].rec = rec]

VoiceInit ==
    /\ apiKey \in ApiKeys
    /\ now = Clock
    /\ EngineIdle
    /\ SaveIdle
    /\ IdleBut({"voice"})
    /\ voiceRecording = NoRecording
    /\ isInitialized = FALSE
    /\ recordings = <<>>
    /\ voiceCalls = <<>>

\* startRecording is called: it awaits hasPermissions
InvokeStart ==
    /\ Len(voiceCalls) < MaxVoiceCalls
    /\ voiceCalls' = Append(voiceCalls, Call("start", "permissions", NoRecording, FALSE))
    /\ UNCHANGED <<serviceVars, engineVars, screenVars, saveVars, chatVars, dispatchVars, persistVars,
                   transcribeVars, voiceRecording, isInitialized, recordings>>

\* stopRecording is called: it throws when there is no recording, and
\* awaits the recording's getStatusAsync otherwise
InvokeStop ==
    /\ Len(voiceCalls) < MaxVoiceCalls
    /\ voiceCalls' = Append(voiceCalls,
                            IF voiceRecording = NoRecording
                            THEN Call("stop", "failed", NoRecording, FALSE)
                            ELSE Call("stop", "status", voiceRecording, FALSE))
    /\ UNCHANGED <<serviceVars, engineVars, screenVars, saveVars, chatVars, dispatchVars, persistVars,
                   transcribeVars, voiceRecording, isInitialized, recordings>>

\* cancelRecording is called: it returns when there is no recording, and
\* awaits the recording's stopAndUnloadAsync otherwise
InvokeCancel ==
    /\ Len(voiceCalls) < MaxVoiceCalls
    /\ voiceCalls' = Append(voiceCalls,
                            IF voiceRecording = NoRecording
                            THEN Call("cancel", "done", NoRecording, FALSE)
                            ELSE Call("cancel", "unloading", voiceRecording, FALSE))
    /\ UNCHANGED <<serviceVars, engineVars, screenVars, saveVars, chatVars, dispatchVars, persistVars,
                   transcribeVars, voiceRecording, isInitialized, recordings>>

\* lines 83-92: the permission is granted and initializeAudio is awaited,
\* or it is refused and the catch block clears the recording
PermissionsSettle(c, granted) ==
    /\ voiceCalls[c].pc = "permissions"
    /\ IF granted
       THEN /\ voiceCalls' = Moved(c, "initialize", NoRecording)
            /\ UNCHANGED voiceRecording
       ELSE /\ voiceCalls' = Moved(c, "failed", NoRecording)
            /\ voiceRecording' = NoRecording
    /\ UNCHANGED <<serviceVars, engineVars, screenVars, saveVars, chatVars, dispatchVars, persistVars,
                   transcribeVars, isInitialized, recordings>>

\* lines 92-126: initializeAudio is done; an existing recording is stopped
\* first (stopRecording awaits its getStatusAsync), otherwise a Recording is
\* created and its prepareToRecordAsync awaited
InitializeSettles(c) ==
    /\ voiceCalls[c].pc = "initialize"
    /\ isInitialized' = TRUE
    /\ IF voiceRecording # NoRecording
       THEN /\ voiceCalls' = [voiceCalls EXCEPT ![c] = Call("start", "status", voiceRecording, TRUE)]
            /\ UNCHANGED recordings
       ELSE /\ recordings' = Append(recordings, "created")
            /\ voiceCalls' = Moved(c, "prepare", Len(recordings) + 1)
    /\ UNCHANGED <<serviceVars, engineVars, screenVars, saveVars, chatVars, dispatchVars, persistVars,
                   transcribeVars, voiceRecording>>

\* line 129: the recording is prepared and its startAsync awaited
PrepareSettles(c) ==
    /\ voiceCalls[c].pc = "prepare"
    /\ recordings' = [recordings EXCEPT ![voiceCalls[c].rec] = "prepared"]
    /\ voiceCalls' = Moved(c, "starting", voiceCalls[c].rec)
    /\ UNCHANGED <<serviceVars, engineVars, screenVars, saveVars, chatVars, dispatchVars, persistVars,
                   transcribeVars, voiceRecording, isInitialized>>

\* lines 129-130: the recording has started and becomes this.recording
StartSettles(c) ==
    /\ voiceCalls[c].pc = "starting"
    /\ recordings' = [recordings EXCEPT ![voiceCalls[c].rec] = "started"]
    /\ voiceRecording' = voiceCalls[c].rec
    /\ voiceCalls' = Moved(c, "done", voiceCalls[c].rec)
    /\ UNCHANGED <<serviceVars, engineVars, screenVars, saveVars, chatVars, dispatchVars, persistVars,
                   transcribeVars, isInitialized>>

\* lines 151-154: the status arrived; this.recording is read again for
\* stopAndUnloadAsync, and reading it when null throws into the catch block
StatusSettles(c) ==
    /\ voiceCalls[c].pc = "status"
    /\ IF voiceRecording = NoRecording
       THEN voiceCalls' = Moved(c, "failed", NoRecording)
       ELSE voiceCalls' = Moved(c, "unloading", voiceRecording)
    /\ UNCHANGED <<serviceVars, engineVars, screenVars, saveVars, chatVars, dispatchVars, persistVars,
                   transcribeVars, voiceRecording, isInitialized, recordings>>

\* lines 154-164 and 194-199: stopAndUnloadAsync settles.  It rejects for a
\* recording that is already unloaded, and this.recording.getURI() throws
\* when this.recording is null by now: the catch block clears the recording
\* (stopRecording then throws, cancelRecording returns).  Otherwise the
\* file operation is awaited.
UnloadSettles(c) ==
    LET call == voiceCalls[c]
        canUnload == recordings[call.rec] \in {"prepared", "started"}
    IN  /\ call.pc = "unloading"
        /\ recordings' = IF canUnload THEN [recordings EXCEPT ![call.rec] = "unloaded"]
                         ELSE recordings
        /\ IF canUnload /\ voiceRecording # NoRecording
           THEN /\ voiceCalls' = Moved(c, "file", call.rec)
                /\ UNCHANGED voiceRecording
           ELSE /\ voiceCalls' = Moved(c, IF call.kind = "cancel" THEN "done" ELSE "failed", call.rec)
                /\ voiceRecording' = NoRecording
        /\ UNCHANGED <<serviceVars, engineVars, screenVars, saveVars, chatVars, dispatchVars, persistVars,
                       transcribeVars, isInitialized>>

\* lines 164-177 and 199-203: the file operation is done and this.recording
\* is cleared; the stopRecording that startRecording awaited returns to it,
\* which creates its Recording and awaits prepareToRecordAsync
FileSettles(c) ==
    /\ voiceCalls[c].pc = "file"
    /\ voiceRecording' = NoRecording
    /\ IF voiceCalls[c].nested
       THEN /\ recordings' = Append(recordings, "created")
            /\ voiceCalls' = [voiceCalls EXCEPT ![c] = Call("start", "prepare", Len(recordings) + 1, FALSE)]
       ELSE /\ voiceCalls' = Moved(c, "done", voiceCalls[c].rec)
            /\ UNCHANGED recordings
    /\ UNCHANGED <<serviceVars, engineVars, screenVars, saveVars, chatVars, dispatchVars, persistVars,
                   transcribeVars, isInitialized>>

VoiceNext ==
    \/ InvokeStart
    \/ InvokeStop
    \/ InvokeCancel
    \/ \E c \in 1..Len(voiceCalls), granted \in BOOLEAN : PermissionsSettle(c, granted)
    \/ \E c \in 1..Len(voiceCalls) : InitializeSettles(c)
    \/ \E c \in 1..Len(voiceCalls) : PrepareSettles(c)
    \/ \E c \in 1..Len(voiceCalls) : StartSettles(c)
    \/ \E c \in 1..Len(voiceCalls) : StatusSettles(c)
    \/ \E c \in 1..Len(voiceCalls) : UnloadSettles(c)
    \/ \E c \in 1..Len(voiceCalls) : FileSettles(c)

VoiceSpec == VoiceInit /\ [][VoiceNext]_vars

(***************************************************************************)
(* HomeScreen: the loadSurprises calls of the memory-count effect and of   *)
(* pull-to-refresh.  A call is a record of what started it, the memory     *)
(* count its render captured, and its position; its batch is identified by *)
(* the call's index in homeCalls.                                          *)
(***************************************************************************)
MaxLoads == 3

LoadCall(kind, captured) == [kind |-> kind, memories |-> captured, pc |-> "awaiting"]

\* HomeScreen is mounted: surprises is [], and the effect has run once and
\* awaits generateSurprises
HomeInit ==
    /\ apiKey = "sk-ant-key"
    /\ now = Clock
    /\ EngineIdle
    /\ SaveIdle
    /\ IdleBut({"home"})
    /\ homeMemories \in 0..1
    /\ homeCalls = <<LoadCall("effect", homeMemories)>>
    /\ displayed = 0
    /\ refreshing = FALSE

\* state.memories.length changes: the effect runs loadSurprises, which
\* awaits generateSurprises
MemoryCountChanges ==
    /\ Len(homeCalls) < MaxLoads
    /\ homeMemories' = homeMemories + 1
    /\ homeCalls' = Append(homeCalls, LoadCall("effect", homeMemories'))
    /\ UNCHANGED <<serviceVars, engineVars, saveVars, chatVars, dispatchVars, persistVars,
                   transcribeVars, voiceVars, talkVars, displayed, refreshing>>

\* onRefresh: setRefreshing(true), then loadSurprises is awaited
PullToRefresh ==
    /\ Len(homeCalls) < MaxLoads
    /\ refreshing' = TRUE
    /\ homeCalls' = Append(homeCalls, LoadCall("refresh", homeMemories))
    /\ UNCHANGED <<serviceVars, engineVars, saveVars, chatVars, dispatchVars, persistVars,
                   transcribeVars, voiceVars, talkVars, homeMemories, displayed>>

\* the generateSurprises call of a loadSurprises resolves:
\* setSurprises(newSurprises), and onRefresh goes on to setRefreshing(false)
GenerateResolves(c) ==
    /\ homeCalls[c].pc = "awaiting"
    /\ homeCalls' = [homeCalls EXCEPT ![c].pc = "done"]
    /\ displayed' = c
    /\ refreshing' = IF homeCalls[c].kind = "refresh" THEN FALSE ELSE refreshing
    /\ UNCHANGED <<serviceVars, engineVars, saveVars, chatVars, dispatchVars, persistVars,
                   transcribeVars, voiceVars, talkVars, homeMemories>>

HomeNext ==
    \/ MemoryCountChanges
    \/ PullToRefresh
    \/ \E c \in 1..Len(homeCalls) : GenerateResolves(c)

HomeSpec == HomeInit /\ [][HomeNext]_vars

(***************************************************************************)
(* TalkScreen's conversation and the conversations slice of the store,     *)
(* with the startup load of the persisted conversations.                   *)
(***************************************************************************)
MaxMessages == 3

\* what AsyncStorage holds under STORAGE_KEYS.CONVERSATIONS when the app
\* starts: nothing, '[]', or the conversations of an earlier run
StoredConversations ==
    <<[kind |-> "absent"],
      [kind |-> "json", value |-> <<>>],
      [kind |-> "json", value |-> <<[id |-> 1, messages |-> <<"user", "assistant">>]>>],
      [kind |-> "json", value |-> <<[id |-> 2, messages |-> <<>>],
                                     [id |-> 1, messages |-> <<"user">>]>>]>>

\* the message roles TalkScreen dispatches: the user's text, the reply, the
\* error message
MessageRoles == {"user", "assistant", "error"}

\* line 44: the conversation of the initial conversation effect, with a fresh id
newConv == [id |-> 100, messages |-> <<>>]

\* case 'ADD_MESSAGE'
addMessage(state, conversationId, message) ==
    [conversations |->
        [i \in 1..Len(state.conversations) |->
            IF state.conversations[i].id = conversationId
            THEN [state.conversations[i] EXCEPT !.messages = Append(@, message)]
            ELSE state.conversations[i]],
     currentConversation |->
        IF state.currentConversation # None /\ state.currentConversation.id = conversationId
        THEN [state.currentConversation EXCEPT !.messages = Append(@, message)]
        ELSE state.currentConversation]

\* the provider is mounted with initialState and loadPersistedData awaits
\* its getItem calls; TalkScreen is not mounted yet
TalkInit ==
    /\ apiKey = "sk-ant-key"
    /\ now = Clock
    /\ EngineIdle
    /\ SaveIdle
    /\ IdleBut({"talk"})
    /\ conversations = <<>>
    /\ currentConversation = None
    /\ talkPc = "unmounted"
    /\ \E i \in 1..Len(StoredConversations) :
          conversationsLoad = [pc |-> "reading", stored |-> StoredConversations[i]]
    /\ messagesSent = 0

\* TalkScreen mounts: its effect finds no current conversation and
\* dispatches ADD_CONVERSATION and SET_CURRENT_CONVERSATION
TalkMounts ==
    /\ talkPc = "unmounted"
    /\ talkPc' = "mounted"
    /\ IF currentConversation = None
       THEN /\ conversations' = <<newConv>> \o conversations
            /\ currentConversation' = newConv
       ELSE UNCHANGED <<conversations, currentConversation>>
    /\ UNCHANGED <<serviceVars, engineVars, saveVars, chatVars, dispatchVars, persistVars,
                   transcribeVars, voiceVars, homeVars, conversationsLoad, messagesSent>>

\* the getItem calls of loadPersistedData resolve: SET_CONVERSATIONS is
\* dispatched when the stored text is truthy
ConversationsLoaded ==
    /\ conversationsLoad.pc = "reading"
    /\ conversationsLoad' = [conversationsLoad EXCEPT !.pc = "done"]
    /\ conversations' = IF conversationsLoad.stored.kind = "json"
                        THEN conversationsLoad.stored.value
                        ELSE conversations
    /\ UNCHANGED <<serviceVars, engineVars, saveVars, chatVars, dispatchVars, persistVars,
                   transcribeVars, voiceVars, homeVars, currentConversation, talkPc,
                   messagesSent>>

\* TalkScreen dispatches actions.addMessage(conversation.id, message)
SendMessage(role) ==
    /\ talkPc = "mounted"
    /\ currentConversation # None
    /\ messagesSent < MaxMessages
    /\ messagesSent' = messagesSent + 1
    /\ LET next == addMessage([conversations |-> conversations,
                               currentConversation |-> currentConversation],
                              currentConversation.id, role)
       IN  /\ conversations' = next.conversations
           /\ currentConversation' = next.currentConversation
    /\ UNCHANGED <<serviceVars, engineVars, saveVars, chatVars, dispatchVars, persistVars,
                   transcribeVars, voiceVars, homeVars, talkPc, conversationsLoad>>

TalkNext ==
    \/ TalkMounts
    \/ ConversationsLoaded
    \/ \E role \in MessageRoles : SendMessage(role)

TalkSpec == TalkInit /\ [][TalkNext]_vars

(***************************************************************************)
(* Properties of generateSurprises.                                        *)
(***************************************************************************)
MemoryIds == {memories[i].id : i \in 1..Len(memories)}

\* C1: whatever the memories, the rooms, the count and the outcomes of the
\* generators (an insight, null, a rejected promise), the batch the call
\* returns holds at least one insight.
C1_AtLeastOne == pc = "done" => Len(result) >= 1

\* the call returned the encouragement fallback of a non-empty collection
C1_Witness ==
    /\ pc = "done"
    /\ Len(memories) > 0
    /\ result = <<generateRandomEncouragement(memories)>>

\* C2 as stated: for a non-empty collection the batch holds at most count
\* insights, for every count.
C2_AtMostCount == (pc = "done" /\ Len(memories) > 0) => Len(result) <= count

\* C2 amended: for a non-empty collection and an integer count the batch
\* holds at most count insights when count >= 1, and exactly one (the
\* encouragement fallback) when count <= 0.
C2_AtMostCountOrOne ==
    (pc = "done" /\ Len(memories) > 0) =>
        /\ Len(result) <= Max(count, 1)
        /\ count <= 0 => result = <<generateRandomEncouragement(memories)>>

\* a batch of exactly count >= 2 insights was returned, with generators left over
C2_Witness ==
    /\ pc = "done"
    /\ count >= 2
    /\ Len(result) = count
    /\ remaining # {}

\* C3: every id in the relatedMemoryIds of every returned insight is the id
\* of a memory of the collection passed to the call.
C3_RelatedIdsExist ==
    pc = "done" =>
        \A i \in 1..Len(result) :
            \A k \in 1..Len(result[i].relatedMemoryIds) :
                result[i].relatedMemoryIds[k] \in MemoryIds

\* a returned batch holds a forgotten gem and an AI connection, both with ids
C3_Witness ==
    /\ pc = "done"
    /\ \E i, j \in 1..Len(result) :
          /\ result[i].type = "forgotten_gem"
          /\ result[j].type = "connection"
          /\ Len(result[j].relatedMemoryIds) = 2

\* C4 as stated: when AIService.isConfigured() is false no returned insight
\* has kind connection or idea_spark, the empty collection included.
C4_NoAIKindsUnconfigured ==
    (pc = "done" /\ ~isConfigured) =>
        \A i \in 1..Len(result) : result[i].type \notin {"connection", "idea_spark"}

\* C5: a generator whose promise rejects leaves the accepted insights in
\* place and the loop goes on; the call ends only with the batch at count or
\* the list exhausted, and it resolves with the batch (it never rejects).
C5_ErrorIsolated ==
    /\ [][errors' # errors => (surprises' = surprises /\ pc' = "loop")]_vars
    /\ [](pc \in {"start", "loop", "await", "done"})
    /\ []((pc = "done" /\ errors > 0) =>
             /\ remaining = {} \/ Len(surprises) >= count
             /\ result = surprises
             /\ Len(result) >= 1)

\* a call in which a generator failed after an insight had been accepted,
\* and another insight was accepted afterwards
C5_Witness ==
    /\ pc = "done"
    /\ errors > 0
    /\ Len(result) = 2
    /\ chatCalls = 2
    /\ result[2].type = "connection"

C7_ChatCallsBounded ==
    /\ chatCalls <= 2
    /\ chatInFlight <= 1
    /\ ~isConfigured => chatCalls = 0

\* the second chat call of a call is in flight
C7_Witness == chatCalls = 2 /\ chatInFlight = 1

(***************************************************************************)
(* Properties of saveAsMemory and of the classification it performs.       *)
(***************************************************************************)
\* the gateway's reply was no JSON
ReplyMalformed == gatewayReply.kind = "text" /\ ~gatewayReply.wellFormed

\* C8 as stated: whatever the gateway does, saveAsMemory dispatches exactly
\* one ADD_MEMORY, whose content is the captured text.
C8_CaptureNeverLost ==
    savePc = "done" =>
        /\ dispatched = 1
        /\ Len(storeMemories) = 1
        /\ storeMemories[1].content = text

\* C9 as stated: classification never raises, and its output always has a
\* tags array and a summary string.
C9_ClassificationTotal ==
    savePc = "done" =>
        /\ saveErrors = 0
        /\ \A i \in 1..Len(storeMemories) :
              /\ storeMemories[i].tags.t = "array"
              /\ storeMemories[i].summary.t = "string"

\* C10 as stated: when the configured gateway's call fails or its reply is
\* malformed JSON, the tags and the summary are those of the heuristic
\* fallback, the ones an unconfigured gateway gives for the same text.
C10_FailureGivesHeuristic ==
    (savePc = "done" /\ isConfigured /\ (chatThrows(gatewayReply) \/ ReplyMalformed)) =>
        /\ Len(storeMemories) = 1
        /\ storeMemories[1].tags = classification(text, FALSE, NoReply).tags
        /\ storeMemories[1].summary = classification(text, FALSE, NoReply).summary

\* the tags the spec's example allows for its text
ExampleTags ==
    {<<"h", "i", "k", "i", "n", "g">>, <<"w", "e", "e", "k", "e", "n", "d", "s">>,
     <<"n", "e", "a", "r">>, <<"l", "a", "k", "e">>}

\* C11 as stated: with the gateway not configured the stored classification
\* has the heuristic tags, a summary equal to the first 100 characters of
\* the content (ellipsized if truncated) and no room; for the text
\* "I love hiking on weekends near the lake" every tag is one of hiking,
\* weekends, near, lake.
C11_HeuristicClassification ==
    (savePc = "done" /\ ~isConfigured) =>
        /\ Len(storeMemories) = 1
        /\ storeMemories[1].tags = JsArray(extractBasicTags(text))
        /\ storeMemories[1].summary = JsString(truncatedSummary(text))
        /\ storeMemories[1].roomId = NoRoom
        /\ text = Texts[1] =>
              \A i \in 1..Len(storeMemories[1].tags.v) :
                  storeMemories[1].tags.v[i] \in ExampleTags

\* C12 as stated: the tags stored on a memory by one classification hold no
\* two entries that are equal ignoring case, whether they come from the
\* heuristic or from the gateway's reply.
C12_TagsDistinctIgnoringCase ==
    \A m \in 1..Len(storeMemories) :
        storeMemories[m].tags.t = "array" =>
            \A i, j \in 1..Len(storeMemories[m].tags.v) :
                i # j => toLowerCase(storeMemories[m].tags.v[i])
                             # toLowerCase(storeMemories[m].tags.v[j])

(***************************************************************************)
(* Properties of AIService.chat.                                           *)
(***************************************************************************)
\* the upstream response is OK and its body parses, yet it carries no text
\* content
ResponseWithoutText ==
    /\ chatResponse # None
    /\ ResponseOk(chatResponse.status)
    /\ chatResponse.body.parses
    /\ \/ chatResponse.body.value.t = "null"
       \/ firstText(chatResponse.body.value).t # "string"
       \/ firstText(chatResponse.body.value).v = ""

\* C13 as stated: chat raises on missing credentials, on a non-OK status
\* and on an upstream response that carries no text content; it never
\* returns empty text.
C13_ChatFailsFast ==
    chatPc = "done" =>
        /\ ~isConfigured => chatResult.threw
        /\ (chatResponse # None /\ ~ResponseOk(chatResponse.status)) => chatResult.threw
        /\ ResponseWithoutText => chatResult.threw
        /\ ~chatResult.threw => chatResult.text # ""

(***************************************************************************)
(* Properties of the store.                                                *)
(***************************************************************************)
\* C14: a DELETE_ROOM step removes only the room: the memories collection is
\* the same after it, the memories filed under the deleted room included.
C14_DeleteRoomKeepsMemories ==
    [][(\E id \in {100 + k : k \in 1..MaxStoreRooms} : DeleteRoom(id))
          => storeMemories' = storeMemories]_vars

\* a room holding a memory was deleted: the memory is stored, its roomId dangling
C14_Witness ==
    /\ lastAction # None
    /\ lastAction.type = "DELETE_ROOM"
    /\ \A i \in 1..Len(storeRooms) : storeRooms[i].id # lastAction.payload
    /\ \E i \in 1..Len(storeMemories) : storeMemories[i].roomId = lastAction.payload

\* the stored memories filed under the room
memoriesOfRoom(roomId) == {i \in 1..Len(storeMemories) : storeMemories[i].roomId = roomId}

\* C15: with rooms created with memoryCount 0 and fresh ids, after any
\* sequence of ADD_ROOM, ADD_MEMORY, DELETE_MEMORY and DELETE_ROOM every
\* stored room's memoryCount is the number of stored memories whose roomId
\* is the room's id.
C15_MemoryCountMatches ==
    \A r \in 1..Len(storeRooms) :
        storeRooms[r].memoryCount = Cardinality(memoriesOfRoom(storeRooms[r].id))

\* a memory of a room holding two was deleted, next to a deleted room's memory
C15_Witness ==
    /\ lastAction # None
    /\ lastAction.type = "DELETE_MEMORY"
    /\ Len(storeMemories) = 2
    /\ \E r \in 1..Len(storeRooms) :
          /\ storeRooms[r].memoryCount = 1
          /\ \E i \in 1..Len(storeMemories) :
                /\ storeMemories[i].roomId \in KnownRoomIds
                /\ storeMemories[i].roomId # storeRooms[r].id

\* C16 as stated: an UPDATE_MEMORY(id, updates) step, for any updates
\* payload, leaves the targeted memory's id and createdAt as they were,
\* sets its updatedAt to the time of the update, and leaves every other
\* memory unchanged.
C16_UpdateKeepsIdentity ==
    [][\A id \in 1..MaxStoreMemories, u \in 1..Len(UpdatePayloads) :
          UpdateMemory(id, UpdatePayloads[u]) =>
              /\ Len(storeMemories') = Len(storeMemories)
              /\ \A i \in 1..Len(storeMemories) :
                    IF storeMemories[i].id = id
                    THEN /\ storeMemories'[i].id = storeMemories[i].id
                         /\ storeMemories'[i].createdAt = storeMemories[i].createdAt
                         /\ storeMemories'[i].updatedAt = now
                    ELSE storeMemories'[i] = storeMemories[i]]_vars

(***************************************************************************)
(* Properties of the persistence of the store.                             *)
(***************************************************************************)
\* C17 as stated: in whatever order the storage carries out the operations
\* issued at mount, once loadPersistedData has run every slice that was
\* persisted when the app stopped is the one in the store, never the
\* initial state.
C17_PersistedDataRestored ==
    loadPc = "done" =>
        \A k \in STORAGE_KEYS : diskAtStart[k] = "persisted" => appState[k] = "persisted"

(***************************************************************************)
(* Properties of TranscriptionService.transcribe.                          *)
(***************************************************************************)
\* the attempt failed with a 5xx status or a network failure
ServerOrNetworkFailure(entry) ==
    \/ entry.outcome.kind = "network"
    \/ entry.outcome.kind = "http" /\ entry.outcome.status >= 500 /\ entry.outcome.status <= 599

\* C18 as stated: a failed attempt is retried exactly when it is a 5xx or
\* network failure and fewer than 3 attempts have been made; a missing API
\* key sends no request at all.
C18_RetryClassification ==
    /\ keyMissing(openaiKey) => attemptLog = <<>>
    /\ \A i \in 1..Len(attemptLog) :
          attemptLog[i].failed =>
              (attemptLog[i].retried <=> (ServerOrNetworkFailure(attemptLog[i]) /\ i < 3))

\* the attempts before the last one all failed and were retried
EarlierAttemptsRetried ==
    \A i \in 1..(Len(attemptLog) - 1) : attemptLog[i].failed /\ attemptLog[i].retried

\* at most 3 attempts, and the waits so far are 1000 ms, then 2000 ms: one
\* after each attempt that was retried
BackoffSchedule ==
    /\ attempt <= 3
    /\ Len(attemptLog) <= 3
    /\ Len(waits) <= 2
    /\ \A i \in 1..Len(waits) : waits[i] = <<1000, 2000>>[i]
    /\ Len(waits) = Cardinality({i \in 1..Len(attemptLog) : attemptLog[i].retried})
    /\ EarlierAttemptsRetried

\* the call resolved with the trimmed text of its last attempt, the first
\* one to succeed
ReturnsFirstSuccess ==
    (trPc = "done" /\ ~trResult.threw) =>
        /\ Len(attemptLog) >= 1
        /\ ~attemptLog[Len(attemptLog)].failed
        /\ trResult.text = trim(attemptLog[Len(attemptLog)].outcome.text)

\* the call rejected with an error reporting failure after 3 attempts
ReportsThreeAttempts ==
    /\ Len(attemptLog) = 3
    /\ SubSeq(trResult.message, 1, 39) = <<"T", "r", "a", "n", "s", "c", "r", "i", "p", "t", "i", "o", "n", " ", "f", "a", "i", "l", "e", "d", " ", "a", "f", "t", "e", "r", " ", "3", " ", "a", "t", "t", "e", "m", "p", "t", "s", ":", " ">>

StartedRecordings == {r \in 1..Len(recordings) : recordings[r] = "started"}

\* C20 as stated: in every interleaving of startRecording, stopRecording
\* and cancelRecording calls at most one recording is started and not
\* stopped, and while a recording is the active one every other recording
\* that was started has been stopped and unloaded.
C20_SingleRecording ==
    /\ Cardinality(StartedRecordings) <= 1
    /\ voiceRecording # NoRecording => StartedRecordings \subseteq {voiceRecording}

(***************************************************************************)
(* Properties of the generators.                                           *)
(***************************************************************************)
\* the memories an insight relates
RelatedMemories(s) ==
    {memories[i] : i \in {j \in 1..Len(memories) : Includes(s.relatedMemoryIds, memories[j].id)}}

\* findOnThisDay can return an insight on the i-th memory
Eligible(i) == \E s \in findOnThisDay(memories) : s.relatedMemoryIds = <<memories[i].id>>

\* the memory findOnThisDay selected has today's day-of-month and month and
\* is at least 7 full days old; a memory created 3 days ago is never selected
SelectsAnniversariesOnly ==
    /\ (pc = "on_this_day" /\ pending # Null) =>
          /\ Len(pending.relatedMemoryIds) = 1
          /\ \A m \in RelatedMemories(pending) :
                sameDay(m.createdAt, now) /\ daysBetween(m.createdAt, now) >= 7
    /\ \A i \in 1..Len(memories) :
          daysBetween(memories[i].createdAt, now) = 3 => ~Eligible(i)

C22_SameDayOfPastMonths ==
    \A i \in 1..Len(memories) :
        LET days == daysBetween(memories[i].createdAt, now)
        IN  (getDate(memories[i].createdAt) = getDate(now) /\ days >= 7 /\ days < 365) =>
                \E s \in findOnThisDay(memories) :
                    /\ s.relatedMemoryIds = <<memories[i].id>>
                    /\ s.topic = IF RoundDiv(days, 7) < 4 THEN "weeks" ELSE "months"

(***************************************************************************)
(* Properties of the loop of generateSurprises.                            *)
(***************************************************************************)
\* the generators a step invokes: those it takes off the shuffled list
Invoked == remaining \ remaining'

\* C23: within one call each candidate generator is invoked at most once (a
\* failed or null generator is never retried), no generator is invoked
\* after the batch has reached count, and the returned batch lists the
\* insights in the order in which their generators were invoked.
C23_OncePerGeneratorInOrder ==
    /\ [][(pc = "loop" \/ pc = "await") =>
            (/\ remaining' \subseteq remaining
             /\ Cardinality(Invoked) <= 1
             /\ Invoked # {} => (pc = "loop" /\ Len(surprises) < count)
             /\ (Invoked # {} /\ surprises' # surprises) =>
                    \E s \in SyncResults(CHOOSE g \in Invoked : TRUE) :
                        s # Null /\ s.type \in Invoked /\ surprises' = Append(surprises, s)
             /\ (Invoked # {} /\ pc' = "await") => pending'.type \in Invoked
             /\ (pc = "await" /\ surprises' # surprises) => surprises' = Append(surprises, pending)
             /\ (Invoked = {} /\ pc = "loop" /\ surprises' # surprises) =>
                    (pc' = "done" /\ surprises = <<>>))]_vars
    /\ [](pc \in {"loop", "await"} =>
             /\ \A i \in 1..Len(surprises) : surprises[i].type \notin remaining
             /\ \A i, j \in 1..Len(surprises) : surprises[i].type = surprises[j].type => i = j
             /\ pc = "await" => pending.type \notin remaining)
    /\ []((pc = "done" /\ Len(memories) > 0) => result = surprises)

\* a call returned a full batch of two insights, an AI one first, after at
\* least three generators were invoked, with generators left uninvoked
C23_Witness ==
    /\ pc = "done"
    /\ count = 2
    /\ Len(result) = 2
    /\ result[1].type \in AIGenerators
    /\ result[2].type \in SyncGenerators
    /\ remaining # {}
    /\ Cardinality(CandidateGenerators \ remaining) >= 3

\* C27: for a non-empty collection and count >= 1 the returned batch holds
\* at least one insight and every insight of it was produced by a generator,
\* the question generator returning an insight whenever it is invoked; the
\* encouragement fallback is returned only when count <= 0.
C27_FallbackOnlyWithoutCount ==
    /\ Len(memories) > 0 => Null \notin generateQuestion(memories)
    /\ (pc = "done" /\ Len(memories) > 0 /\ count >= 1) =>
          /\ Len(result) >= 1
          /\ \A i \in 1..Len(result) :
                /\ result[i].type \in CandidateGenerators
                /\ result[i] # generateRandomEncouragement(memories)
          /\ \/ Len(result) = count
             \/ \E i \in 1..Len(result) : result[i].type = "question"
    /\ (pc = "done" /\ Len(memories) > 0
          /\ result = <<generateRandomEncouragement(memories)>>) => count <= 0

\* with count = 2 every generator was invoked and only the question
\* generator returned an insight
C27_Witness ==
    /\ pc = "done"
    /\ count = 2
    /\ remaining = {}
    /\ Len(result) = 1
    /\ result[1].type = "question"

\* the tags of the first 20 memories, in order, with repetitions
RecentTags == FlatTags(Take(memories, 20))

\* C24: findPattern returns an insight exactly when there are at least 3
\* memories and some tag occurs at least 3 times among the tags of the first
\* 20 memories; the insight names a tag of maximal count, and its
\* relatedMemoryIds are at least one and at most 3 ids, all of memories among
\* those 20 that carry that tag.
C24_PatternOfMostFrequentTag ==
    pc = "pattern" =>
        /\ pending # Null <=>
              /\ Len(memories) >= 3
              /\ \E k \in 1..Len(RecentTags) : Occurrences(RecentTags, RecentTags[k]) >= 3
        /\ pending # Null =>
              /\ pending.type = "pattern"
              /\ Includes(RecentTags, pending.topic)
              /\ pending.n = Occurrences(RecentTags, pending.topic)
              /\ \A k \in 1..Len(RecentTags) :
                    Occurrences(RecentTags, RecentTags[k]) <= pending.n
              /\ Len(pending.relatedMemoryIds) \in 1..3
              /\ \A k \in 1..Len(pending.relatedMemoryIds) :
                    \E i \in 1..Min(Len(memories), 20) :
                        /\ memories[i].id = pending.relatedMemoryIds[k]
                        /\ Includes(memories[i].tags, pending.topic)

\* of more than 20 memories three carry a tag, one of them past the first
\* 20, and findPattern names the other tag, which occurs 3 times in the
\* first 20
C24_Witness ==
    /\ pc = "pattern"
    /\ Len(memories) > 20
    /\ Occurrences(FlatTags(memories), "a") = 3
    /\ Occurrences(RecentTags, "a") = 2
    /\ pending.topic = "b"
    /\ Len(pending.relatedMemoryIds) = 3

\* findPattern returns null for more than 20 memories of which three carry
\* a tag, two of them past the first 20
C24_WitnessNull ==
    /\ pc = "pattern"
    /\ Len(memories) > 20
    /\ Occurrences(FlatTags(memories), "a") = 3
    /\ Occurrences(RecentTags, "a") = 1
    /\ pending = Null

\* the creation times of the memories of the j-th room
ActivityOf(j) == {memories[i].createdAt : i \in {k \in 1..Len(memories) : memories[k].roomId = rooms[j].id}}

\* the creation time of the most recent memory of the j-th room, which has one
MostRecent(j) == CHOOSE t \in ActivityOf(j) : \A u \in ActivityOf(j) : u <= t

\* generateNudge returned an insight exactly when some room satisfies
\* Stale; the room it names satisfies Stale and no room satisfying Stale has
\* an older most recent memory; its relatedMemoryIds is empty
NudgesStalest(Stale(_)) ==
    pc = "nudge" =>
        /\ pending # Null <=> \E j \in 1..Len(rooms) : Stale(j)
        /\ pending # Null =>
              /\ pending.type = "nudge"
              /\ pending.relatedMemoryIds = <<>>
              /\ \E j \in 1..Len(rooms) :
                    /\ Stale(j)
                    /\ rooms[j].name = pending.topic
                    /\ \A k \in 1..Len(rooms) : Stale(k) => MostRecent(j) <= MostRecent(k)

\* the j-th room has a memory and its most recent one is more than 7 days old
OlderThanSevenDays(j) == ActivityOf(j) # {} /\ now - MostRecent(j) > 7 * HoursPerDay

\* the j-th room has a memory and its most recent one is at least 8 full days old
EightFullDaysOld(j) == ActivityOf(j) # {} /\ now - MostRecent(j) >= 8 * HoursPerDay

C26_NoSelfRelation ==
    (pc \in {"mashup", "connection"} /\ pending # Null) =>
        /\ pending.type = pc
        /\ Len(pending.relatedMemoryIds) = 2
        /\ pending.relatedMemoryIds[1] # pending.relatedMemoryIds[2]
        /\ \A k \in 1..2 : pending.relatedMemoryIds[k] \in MemoryIds

\* a mashup of two of four memories that all carry the same tag: no memory
\* has tags disjoint from the anchor's and the fallback is taken
C26_Witness ==
    /\ pc = "mashup"
    /\ Len(memories) = 4
    /\ \A i \in 1..4 : memories[i].tags = <<"a">>
    /\ \E i, j \in 1..4 : memories[i].roomId # memories[j].roomId
    /\ pending.relatedMemoryIds = <<3, 1>>

\* a connection of two of three memories with the same tag: the fallback
C26_WitnessConnection ==
    /\ pc = "connection"
    /\ Len(memories) = 3
    /\ \A i \in 1..3 : memories[i].tags = <<"a">>
    /\ pending.relatedMemoryIds = <<2, 3>>

(***************************************************************************)
(* Properties of HomeScreen.                                               *)
(***************************************************************************)
\* C28 as stated: when a second loadSurprises starts while an earlier
\* generateSurprises call is still awaiting, the batch displayed once both
\* have finished is the one of the later-started call.
C28_LaterLoadDisplayed ==
    (Len(homeCalls) >= 2 /\ \A c \in 1..Len(homeCalls) : homeCalls[c].pc = "done") =>
        displayed = Len(homeCalls)

(***************************************************************************)
(* Properties of the conversations of the store.                           *)
(***************************************************************************)
\* C29 as stated: whenever currentConversation is non-null, the
\* conversations list holds a conversation with the same id and the same
\* message sequence, for every interleaving of TalkScreen's conversation
\* creation, ADD_MESSAGE and the startup load's SET_CONVERSATIONS.
C29_CurrentConversationListed ==
    currentConversation # None =>
        \E i \in 1..Len(conversations) :
            /\ conversations[i].id = currentConversation.id
            /\ conversations[i].messages = currentConversation.messages

(***************************************************************************)
(* Properties of UPDATE_MEMORY on the rooms' counts.                       *)
(***************************************************************************)
\* the number of memories of the list filed under the room
CountIn(mems, roomId) == Cardinality({i \in 1..Len(mems) : mems[i].roomId = roomId})

\* C30 as stated: an UPDATE_MEMORY that changes a memory's roomId keeps the
\* memoryCount of every room equal to the number of stored memories whose
\* roomId is that room: the count of the room the memory left decreases by
\* one and the count of the room it joined increases by one.
C30_MoveKeepsCounts ==
    [][\A id \in 1..MaxStoreMemories, roomId \in {NoRoom} \cup KnownRoomIds :
          (/\ UpdateMemory(id, [roomId |-> roomId])
           /\ C15_MemoryCountMatches
           /\ \E i \in 1..Len(storeMemories) :
                 storeMemories[i].id = id /\ storeMemories[i].roomId # roomId) =>
              \A r \in 1..Len(storeRooms') :
                 /\ storeRooms'[r].memoryCount = CountIn(storeMemories', storeRooms'[r].id)
                 /\ storeRooms'[r].memoryCount - storeRooms[r].memoryCount =
                       CountIn(storeMemories', storeRooms[r].id)
                          - CountIn(storeMemories, storeRooms[r].id)]_vars

====
